---------------------------- MODULE Spec2Model ----------------------------
(***************************************************************************)
(* serde-csv-core: Writer::serialize (src/src/ser.rs) and                  *)
(* Reader::deserialize (src/src/de.rs) over csv_core's Writer and Reader.  *)
(*                                                                         *)
(* A byte is a one-character string.  A byte string is a sequence of       *)
(* bytes.  Every value is a record [k, n, s, e] (kind, number, bytes,      *)
(* elements) and every type a record [k, s, e] (kind, names, element       *)
(* types), so that any two of them can be compared.                        *)
(***************************************************************************)
EXTENDS Integers, Sequences, FiniteSets, TLC

VARIABLES writer, ser, reader, de, enc, dec

vars == <<writer, ser, reader, de, enc, dec>>

-----------------------------------------------------------------------------
(* Bytes *)

Comma == ","
Quote == "\""
LF == "\n"
CR == "\r"

(* With(v, F): F applied to v, a value computed once and named *)
With(v, F(_)) == F(v)

RECURSIVE Concat(_)
Concat(ss) == IF ss = <<>> THEN <<>> ELSE Head(ss) \o Concat(Tail(ss))

DropFirst(s, n) == SubSeq(s, n + 1, Len(s))

TakeFirst(s, n) == SubSeq(s, 1, n)

-----------------------------------------------------------------------------
(* csv_core::Writer with the default builder: delimiter ',', terminator    *)
(* '\n', quote '"', double_quote, QuoteStyle::Necessary.                   *)

WriterState_new == [in_field |-> FALSE, quoting |-> FALSE, record_bytes |-> 0]

requires_quotes(b) == b \in {Comma, Quote, CR, LF}

should_quote(input) == \E i \in 1..Len(input) : requires_quotes(input[i])

write_optimistic(input, cap) ==
    IF Len(input) > cap
    THEN [res |-> "OutputFull", nin |-> cap, out |-> TakeFirst(input, cap)]
    ELSE [res |-> "InputEmpty", nin |-> Len(input), out |-> input]

write_pessimistic(data, cap) ==
    IF Len(data) > cap
    THEN [res |-> "OutputFull", out |-> <<>>]
    ELSE [res |-> "InputEmpty", out |-> data]

memchr(b, input) ==
    IF \E i \in 1..Len(input) : input[i] = b
    THEN CHOOSE i \in 1..Len(input) :
            input[i] = b /\ \A j \in 1..(i - 1) : input[j] # b
    ELSE 0

RECURSIVE quote(_, _)
quote(input, cap) ==
    LET next_quote == memchr(Quote, input)
    IN  IF next_quote = 0
        THEN write_optimistic(input, cap)
        ELSE LET w == write_optimistic(TakeFirst(input, next_quote - 1), cap)
                 p == write_pessimistic(<<Quote, Quote>>, cap - Len(w.out))
             IN  IF w.res = "OutputFull" THEN w
                 ELSE IF p.res = "OutputFull"
                 THEN [res |-> "OutputFull", nin |-> w.nin, out |-> w.out]
                 ELSE LET r == quote(DropFirst(input, next_quote),
                                     cap - Len(w.out) - 2)
                      IN  [res |-> r.res, nin |-> w.nin + 1 + r.nin,
                           out |-> w.out \o <<Quote, Quote>> \o r.out]

(* Writer::field(input, output) with Len(output) = cap *)
Writer_field(w, input, cap) ==
    LET start == ~w.in_field
        quoting == IF start THEN should_quote(input) ELSE w.quoting
        open == IF start /\ quoting THEN <<Quote>> ELSE <<>>
    IN  IF start /\ quoting /\ cap = 0
        THEN [w |-> [w EXCEPT !.quoting = TRUE],
              res |-> "OutputFull", nin |-> 0, out |-> <<>>]
        ELSE With(IF quoting THEN quote(input, cap - Len(open))
                         ELSE write_optimistic(input, cap - Len(open)),
                  LAMBDA body :
                 [w |-> [in_field |-> TRUE, quoting |-> quoting,
                         record_bytes |->
                             w.record_bytes + Len(open) + Len(body.out)],
                  res |-> body.res, nin |-> body.nin,
                  out |-> open \o body.out])

(* Writer::delimiter(output) *)
Writer_delimiter(w, cap) ==
    LET close == IF w.in_field /\ w.quoting THEN <<Quote>> ELSE <<>>
        w1 == [w EXCEPT !.in_field = FALSE]
    IN  IF Len(close) > cap
        THEN [w |-> w1, res |-> "OutputFull", out |-> <<>>]
        ELSE IF 1 > cap - Len(close)
        THEN [w |-> [w1 EXCEPT !.record_bytes = @ + Len(close)],
              res |-> "OutputFull", out |-> close]
        ELSE [w |-> [w1 EXCEPT !.record_bytes = @ + Len(close) + 1],
              res |-> "InputEmpty", out |-> close \o <<Comma>>]

(* Variant of Writer_terminator: the record is ended but the writer stays *)
(* inside the last field                                                   *)
Writer_terminator_in_field(w, cap) ==
    LET empty == IF w.record_bytes = 0 THEN <<Quote, Quote>> ELSE <<>>
        close == IF w.in_field /\ w.quoting THEN <<Quote>> ELSE <<>>
    IN  IF Len(empty) + Len(close) + 1 > cap
        THEN [w |-> w, res |-> "OutputFull", out |-> <<>>]
        ELSE [w |-> [w EXCEPT !.record_bytes = 0],
              res |-> "InputEmpty", out |-> empty \o close \o <<LF>>]

(* Variant of Writer_terminator: a record of no byte is ended without the *)
(* pair of quotes                                                          *)
Writer_terminator_bare(w, cap) ==
    LET close == IF w.in_field /\ w.quoting THEN <<Quote>> ELSE <<>>
    IN  IF Len(close) + 1 > cap
        THEN [w |-> w, res |-> "OutputFull", out |-> <<>>]
        ELSE [w |-> [w EXCEPT !.in_field = FALSE, !.record_bytes = 0],
              res |-> "InputEmpty", out |-> close \o <<LF>>]

(* Writer::terminator(output) *)
Writer_terminator(w, cap) ==
    LET empty == IF w.record_bytes = 0 THEN <<Quote, Quote>> ELSE <<>>
        close == IF w.in_field /\ w.quoting THEN <<Quote>> ELSE <<>>
    IN  IF Len(empty) > cap
        THEN [w |-> w, res |-> "OutputFull", out |-> <<>>]
        ELSE IF Len(close) > cap - Len(empty)
        THEN [w |-> [w EXCEPT !.in_field = FALSE,
                              !.record_bytes = @ + Len(empty)],
              res |-> "OutputFull", out |-> empty]
        ELSE IF 1 > cap - Len(empty) - Len(close)
        THEN [w |-> [w EXCEPT !.in_field = FALSE,
                              !.record_bytes = @ + Len(empty) + Len(close)],
              res |-> "OutputFull", out |-> empty \o close]
        ELSE [w |-> [w EXCEPT !.in_field = FALSE, !.record_bytes = 0],
              res |-> "InputEmpty", out |-> empty \o close \o <<LF>>]

-----------------------------------------------------------------------------
(* csv_core::Reader with the default builder: delimiter ',', terminator    *)
(* CRLF (a record ends at '\r', '\n' or "\r\n"), quote '"', double_quote,  *)
(* no escape byte, no comment byte.  The states InEscapedQuote and         *)
(* InComment are unreachable in this configuration and left out.           *)

term_equals(c) == c = CR \/ c = LF

transition_nfa(state, c) ==
    CASE state = "StartRecord" ->
           IF term_equals(c) THEN [st |-> "StartRecord", act |-> "Discard"]
           ELSE [st |-> "StartField", act |-> "Epsilon"]
      [] state = "EndRecord" -> [st |-> "StartRecord", act |-> "Epsilon"]
      [] state = "StartField" ->
           IF c = Quote THEN [st |-> "InQuotedField", act |-> "Discard"]
           ELSE IF c = Comma THEN [st |-> "EndFieldDelim", act |-> "Discard"]
           ELSE IF term_equals(c)
           THEN [st |-> "EndFieldTerm", act |-> "Epsilon"]
           ELSE [st |-> "InField", act |-> "CopyToOutput"]
      [] state = "EndFieldDelim" -> [st |-> "StartField", act |-> "Epsilon"]
      [] state = "EndFieldTerm" -> [st |-> "InRecordTerm", act |-> "Epsilon"]
      [] state = "InField" ->
           IF c = Comma THEN [st |-> "EndFieldDelim", act |-> "Discard"]
           ELSE IF term_equals(c)
           THEN [st |-> "EndFieldTerm", act |-> "Epsilon"]
           ELSE [st |-> "InField", act |-> "CopyToOutput"]
      [] state = "InQuotedField" ->
           IF c = Quote
           THEN [st |-> "InDoubleEscapedQuote", act |-> "Discard"]
           ELSE [st |-> "InQuotedField", act |-> "CopyToOutput"]
      [] state = "InDoubleEscapedQuote" ->
           IF c = Quote THEN [st |-> "InQuotedField", act |-> "CopyToOutput"]
           ELSE IF c = Comma THEN [st |-> "EndFieldDelim", act |-> "Discard"]
           ELSE IF term_equals(c)
           THEN [st |-> "EndFieldTerm", act |-> "Epsilon"]
           ELSE [st |-> "InField", act |-> "CopyToOutput"]
      [] state = "InRecordTerm" ->
           IF c = CR THEN [st |-> "CRLF", act |-> "Discard"]
           ELSE [st |-> "EndRecord", act |-> "Discard"]
      [] state = "CRLF" ->
           IF c = LF THEN [st |-> "StartRecord", act |-> "Discard"]
           ELSE [st |-> "StartRecord", act |-> "Epsilon"]

(* build_dfa: the DFA's transition on c is the NFA's first transition that *)
(* is not an epsilon                                                       *)
RECURSIVE dfa_get_output(_, _)
dfa_get_output(state, c) ==
    With(transition_nfa(state, c),
         LAMBDA t :
        IF t.act = "Epsilon" THEN dfa_get_output(t.st, c) ELSE t)

final_record(state) == state \in {"EndRecord", "CRLF"}

final_field(state) == state = "EndFieldDelim" \/ final_record(state)

transition_final_dfa(state) ==
    IF final_record(state) \/ state = "StartRecord" THEN "StartRecord"
    ELSE "EndRecord"

new_read_field_result(state, is_final_trans, inpdone, outdone) ==
    IF final_record(state) THEN [res |-> "Field", record_end |-> TRUE]
    ELSE IF state = "EndFieldDelim"
    THEN [res |-> "Field", record_end |-> FALSE]
    ELSE IF is_final_trans /\ state = "StartRecord"
    THEN [res |-> "End", record_end |-> FALSE]
    ELSE IF ~inpdone /\ outdone
    THEN [res |-> "OutputFull", record_end |-> FALSE]
    ELSE [res |-> "InputEmpty", record_end |-> FALSE]

(* the loop of read_field_dfa: nin bytes read, out the bytes copied so far *)
RECURSIVE read_field_loop(_, _, _, _, _)
read_field_loop(state, input, n, nin, out) ==
    IF nin < Len(input) /\ Len(out) < n
    THEN With(dfa_get_output(state, input[nin + 1]),
              LAMBDA t :
           LET out1 == IF t.act = "CopyToOutput"
                       THEN Append(out, input[nin + 1]) ELSE out
           IN  IF final_field(t.st)
               THEN [state |-> t.st, nin |-> nin + 1, out |-> out1]
               ELSE read_field_loop(t.st, input, n, nin + 1, out1))
    ELSE [state |-> state, nin |-> nin, out |-> out]

(* Reader::read_field(input, output) in DFA state `state`, Len(output) = n *)
Reader_read_field(state, input, n) ==
    IF input = <<>>
    THEN LET s1 == transition_final_dfa(state)
             r == new_read_field_result(s1, TRUE, FALSE, FALSE)
         IN  [state |-> s1, res |-> r.res, record_end |-> r.record_end,
              nin |-> 0, out |-> <<>>]
    ELSE With(read_field_loop(state, input, n, 0, <<>>),
              LAMBDA l :
         LET r == new_read_field_result(l.state, FALSE,
                                        l.nin >= Len(input), Len(l.out) >= n)
         IN  [state |-> l.state, res |-> r.res, record_end |-> r.record_end,
              nin |-> l.nin, out |-> l.out])

-----------------------------------------------------------------------------
(* Values and types of the data model (serde's)                            *)

Val(k, n, s, e) == [k |-> k, n |-> n, s |-> s, e |-> e]

Ty(k, s, e) == [k |-> k, s |-> s, e |-> e]

CompoundKinds == {"tuple", "array", "struct", "tuple_struct", "seq"}

FixedKinds == {"tuple", "array", "struct", "tuple_struct"}

VBool(b) == Val("bool", IF b THEN 1 ELSE 0, <<>>, <<>>)
VInt(n) == Val("i8", n, <<>>, <<>>)
VUnit == Val("unit", 0, <<>>, <<>>)
VStr(s) == Val("str", 0, s, <<>>)
VNone == Val("none", 0, <<>>, <<>>)
VSome(v) == Val("some", 0, <<>>, <<v>>)
VUnitStruct(name) == Val("unit_struct", 0, name, <<>>)
VVariant(name) == Val("unit_variant", 0, name, <<>>)
VNewtype(v) == Val("newtype_struct", 0, <<>>, <<v>>)
VComp(k, e) == Val(k, 0, <<>>, e)
(* a char, s the bytes of its UTF-8 encoding *)
VChar(s) == Val("char", 0, s, <<>>)

TBool == Ty("bool", <<>>, <<>>)
TInt == Ty("i8", <<>>, <<>>)
TUnit == Ty("unit", <<>>, <<>>)
TStr == Ty("str", <<>>, <<>>)
TOption(t) == Ty("option", <<>>, <<t>>)
TUnitStruct(name) == Ty("unit_struct", <<name>>, <<>>)
TEnum(names) == Ty("enum", names, <<>>)
TNewtype(t) == Ty("newtype_struct", <<>>, <<t>>)
TComp(k, e) == Ty(k, <<>>, e)
TSeq(t) == Ty("seq", <<>>, <<t>>)
TChar == Ty("char", <<>>, <<>>)

(* enum variants that carry data, maps, and a value whose own Serialize    *)
(* implementation returns Err(S::Error::custom(..))                        *)
VNewtypeVariant(name, v) == Val("newtype_variant", 0, name, <<v>>)
VTupleVariant(name, e) == Val("tuple_variant", 0, name, e)
VStructVariant(name, e) == Val("struct_variant", 0, name, e)
VMap(e) == Val("map", 0, <<>>, e)
VCustom == Val("custom", 0, <<>>, <<>>)

(* an enum of the variants names[i]; payloads[i] is TUnit for a unit       *)
(* variant, TNewtype(t) for a newtype variant, a tuple or a struct type    *)
(* for a tuple or a struct variant                                         *)
TDataEnum(names, payloads) == Ty("data_enum", names, payloads)

(* a type that calls deserialize_map: e is <<>> when its visitor has no    *)
(* visit_seq (a map of the standard library), and the element types its    *)
(* visit_seq asks for otherwise                                            *)
TMap(e) == Ty("map", <<>>, e)

(* a type that calls deserialize_any *)
TAny == Ty("any", <<>>, <<>>)

-----------------------------------------------------------------------------
(* Formatting of scalars (itoa::Buffer::format, the literals of            *)
(* serialize_bool)                                                         *)

DigitChar == <<"0", "1", "2", "3", "4", "5", "6", "7", "8", "9">>

RECURSIVE FormatNat(_)
FormatNat(n) ==
    IF n < 10 THEN <<DigitChar[n + 1]>>
    ELSE FormatNat(n \div 10) \o <<DigitChar[(n % 10) + 1]>>

itoa_format(n) == IF n < 0 THEN <<"-">> \o FormatNat(-n) ELSE FormatNat(n)

-----------------------------------------------------------------------------
(* Serializer (ser.rs).  A serializer state s holds the csv_core writer,   *)
(* the written part of the output slice, its length cap, nwritten, the     *)
(* outcome so far (err) and the list of the emitter operations made.       *)

Serializer_new(w, cap) ==
    [writer |-> w, output |-> <<>>, cap |-> cap, nwritten |-> 0,
     err |-> "none", log |-> <<>>]

LogEntry(op, res, at, n) == [op |-> op, res |-> res, at |-> at, n |-> n]

Serializer_field(s, input) ==
    With(Writer_field(s.writer, input, s.cap - s.nwritten),
         LAMBDA r :
        [s EXCEPT !.writer = r.w,
                  !.output = TakeFirst(s.output, s.nwritten) \o r.out,
                  !.nwritten = s.nwritten + Len(r.out),
                  !.err = IF r.res = "OutputFull" THEN "Overflow" ELSE "none",
                  !.log = Append(@, LogEntry("field", r.res, s.nwritten,
                                             Len(r.out)))])

(* Variant of Serializer_delimiter: nwritten is advanced by the one byte   *)
(* of a delimiter whatever the writer reports                              *)
Serializer_delimiter_one_byte(s) ==
    With(Writer_delimiter(s.writer, s.cap - s.nwritten),
         LAMBDA r :
        [s EXCEPT !.writer = r.w,
                  !.output = TakeFirst(s.output, s.nwritten) \o r.out,
                  !.nwritten = s.nwritten + 1,
                  !.err = IF r.res = "OutputFull" THEN "Overflow" ELSE "none",
                  !.log = Append(@, LogEntry("delimiter", r.res, s.nwritten,
                                             Len(r.out)))])

Serializer_delimiter(s) ==
    With(Writer_delimiter(s.writer, s.cap - s.nwritten),
         LAMBDA r :
        [s EXCEPT !.writer = r.w,
                  !.output = TakeFirst(s.output, s.nwritten) \o r.out,
                  !.nwritten = s.nwritten + Len(r.out),
                  !.err = IF r.res = "OutputFull" THEN "Overflow" ELSE "none",
                  !.log = Append(@, LogEntry("delimiter", r.res, s.nwritten,
                                             Len(r.out)))])

Unsupported(s) == [s EXCEPT !.err = "panic"]

Compound_new(s) == [serializer |-> s, nfields |-> 0]

RECURSIVE Serialize(_, _), Compound_element(_, _), SerializeElements(_, _)

(* Variant of Compound_element: the element is serialized whatever the    *)
(* delimiter returned                                                      *)
Compound_element_go_on(c, value) ==
    With(IF c.nfields > 0 THEN Serializer_delimiter(c.serializer)
              ELSE c.serializer,
         LAMBDA s1 :
        [serializer |-> Serialize(s1, value), nfields |-> c.nfields + 1])

(* serialize_newtype_variant, serialize_tuple_variant,                     *)
(* serialize_struct_variant, serialize_map: unimplemented!()               *)
serialize_newtype_variant(s, v) == Unsupported(s)

serialize_tuple_variant(s, v) == Unsupported(s)

serialize_struct_variant(s, v) == Unsupported(s)

(* Variant of serialize_map: the map is written as the sequence of its     *)
(* keys and values                                                         *)
serialize_map_as_seq(s, v) == SerializeElements(Compound_new(s), v.e)

serialize_map(s, v) == Unsupported(s)

(* <ser::Error as serde::ser::Error>::custom: unimplemented!() *)
ser_Error_custom(s) == Unsupported(s)

(* Compound::element *)
Compound_element(c, value) ==
    With(IF c.nfields > 0 THEN Serializer_delimiter(c.serializer)
              ELSE c.serializer,
         LAMBDA s1 :
        IF s1.err # "none"
        THEN [serializer |-> s1, nfields |-> c.nfields]
        ELSE [serializer |-> Serialize(s1, value), nfields |-> c.nfields + 1])

(* Variant of Compound_end: end() writes the record terminator *)
Compound_end_terminator(c) ==
    LET s == c.serializer
        r == Writer_terminator(s.writer, s.cap - s.nwritten)
    IN  [s EXCEPT !.writer = r.w,
                  !.output = TakeFirst(s.output, s.nwritten) \o r.out,
                  !.nwritten = s.nwritten + Len(r.out),
                  !.err = IF r.res = "OutputFull" THEN "Overflow" ELSE "none",
                  !.log = Append(@, LogEntry("terminator", r.res, s.nwritten,
                                             Len(r.out)))]

(* SerializeSeq / SerializeTuple / SerializeTupleStruct / SerializeStruct   *)
(* ::end: Ok(()), nothing is written                                       *)
Compound_end(c) == c.serializer

(* serialize_element / serialize_field for each element in order, then     *)
(* end()                                                                   *)
SerializeElements(c, es) ==
    IF es = <<>> THEN Compound_end(c)
    ELSE With(Compound_element(c, Head(es)),
              LAMBDA c1 :
             IF c1.serializer.err # "none" THEN c1.serializer
             ELSE SerializeElements(c1, Tail(es)))

(* value.serialize(&mut serializer): the hook each kind of value calls *)
Serialize(s, v) ==
    CASE v.k = "bool" ->
           Serializer_field(s, IF v.n = 1 THEN <<"t", "r", "u", "e">>
                               ELSE <<"f", "a", "l", "s", "e">>)
      [] v.k = "i8" -> Serializer_field(s, itoa_format(v.n))
      [] v.k = "str" -> Serializer_field(s, v.s)
      [] v.k = "char" -> Serializer_field(s, v.s)
      [] v.k = "none" -> Serializer_field(s, <<>>)
      [] v.k = "some" -> Serialize(s, v.e[1])
      [] v.k = "unit" -> Serializer_field(s, <<>>)
      [] v.k = "unit_struct" -> Serializer_field(s, v.s)
      [] v.k = "unit_variant" -> Serializer_field(s, v.s)
      [] v.k = "newtype_struct" -> Serialize(s, v.e[1])
      [] v.k \in CompoundKinds -> SerializeElements(Compound_new(s), v.e)
      [] v.k = "newtype_variant" -> serialize_newtype_variant(s, v)
      [] v.k = "tuple_variant" -> serialize_tuple_variant(s, v)
      [] v.k = "struct_variant" -> serialize_struct_variant(s, v)
      [] v.k = "map" -> serialize_map(s, v)
      [] v.k = "custom" -> ser_Error_custom(s)
      [] OTHER -> Unsupported(s)

(* Writer::serialize(value, output) on a writer in state w, with           *)
(* Len(output) = cap.  ret is the returned count, -1 for Err or a panic.   *)
Writer_serialize(w, value, cap) ==
    With(Serialize(Serializer_new(w, cap), value),
         LAMBDA s :
    LET t == Writer_terminator(s.writer, cap - s.nwritten)
    IN  IF s.err # "none"
        THEN [writer |-> s.writer, output |-> s.output, err |-> s.err,
              ret |-> -1, nwritten |-> s.nwritten, log |-> s.log]
        ELSE [writer |-> t.w,
              output |-> s.output \o t.out,
              err |-> IF t.res = "OutputFull" THEN "Overflow" ELSE "none",
              ret |-> IF t.res = "OutputFull" THEN -1
                      ELSE s.nwritten + Len(t.out),
              nwritten |-> IF t.res = "OutputFull" THEN s.nwritten
                           ELSE s.nwritten + Len(t.out),
              log |-> Append(s.log, LogEntry("terminator", t.res, s.nwritten,
                                             Len(t.out)))])

-----------------------------------------------------------------------------
(* The Serializer of serializer.rs.  It owns the csv_core writer, and the  *)
(* end of each composite calls Serializer::terminator.  A serializer       *)
(* state has the fields of the Serializer of ser.rs.                       *)

(* serializer.rs, Serializer::field *)
SerializerRs_field(s, input) ==
    With(Writer_field(s.writer, input, s.cap - s.nwritten),
         LAMBDA r :
        [s EXCEPT !.writer = r.w,
                  !.output = TakeFirst(s.output, s.nwritten) \o r.out,
                  !.nwritten = s.nwritten + Len(r.out),
                  !.err = IF r.res = "OutputFull" THEN "Overflow" ELSE "none",
                  !.log = Append(@, LogEntry("field", r.res, s.nwritten,
                                             Len(r.out)))])

(* serializer.rs, Serializer::delimiter *)
SerializerRs_delimiter(s) ==
    With(Writer_delimiter(s.writer, s.cap - s.nwritten),
         LAMBDA r :
        [s EXCEPT !.writer = r.w,
                  !.output = TakeFirst(s.output, s.nwritten) \o r.out,
                  !.nwritten = s.nwritten + Len(r.out),
                  !.err = IF r.res = "OutputFull" THEN "Overflow" ELSE "none",
                  !.log = Append(@, LogEntry("delimiter", r.res, s.nwritten,
                                             Len(r.out)))])

(* serializer.rs, Serializer::terminator *)
SerializerRs_terminator(s) ==
    With(Writer_terminator(s.writer, s.cap - s.nwritten),
         LAMBDA r :
        [s EXCEPT !.writer = r.w,
                  !.output = TakeFirst(s.output, s.nwritten) \o r.out,
                  !.nwritten = s.nwritten + Len(r.out),
                  !.err = IF r.res = "OutputFull" THEN "Overflow" ELSE "none",
                  !.log = Append(@, LogEntry("terminator", r.res, s.nwritten,
                                             Len(r.out)))])

RECURSIVE SerializerRs_Serialize(_, _), SerializerRs_Compound_element(_, _),
          SerializerRs_SerializeElements(_, _)

(* serializer.rs, Compound::element *)
SerializerRs_Compound_element(c, value) ==
    With(IF c.nfields > 0 THEN SerializerRs_delimiter(c.serializer)
              ELSE c.serializer,
         LAMBDA s1 :
        IF s1.err # "none"
        THEN [serializer |-> s1, nfields |-> c.nfields]
        ELSE [serializer |-> SerializerRs_Serialize(s1, value),
              nfields |-> c.nfields + 1])

(* serializer.rs, SerializeSeq / SerializeTuple / SerializeTupleStruct /   *)
(* SerializeStruct ::end: self.serializer.terminator()                     *)
SerializerRs_Compound_end(c) == SerializerRs_terminator(c.serializer)

(* serialize_element / serialize_field for each element in order, then     *)
(* end()                                                                   *)
SerializerRs_SerializeElements(c, es) ==
    IF es = <<>> THEN SerializerRs_Compound_end(c)
    ELSE With(SerializerRs_Compound_element(c, Head(es)),
              LAMBDA c1 :
             IF c1.serializer.err # "none" THEN c1.serializer
             ELSE SerializerRs_SerializeElements(c1, Tail(es)))

(* serializer.rs, value.serialize(&mut serializer): the hook each kind of  *)
(* value calls                                                             *)
SerializerRs_Serialize(s, v) ==
    CASE v.k = "bool" ->
           SerializerRs_field(s, IF v.n = 1 THEN <<"t", "r", "u", "e">>
                                 ELSE <<"f", "a", "l", "s", "e">>)
      [] v.k = "i8" -> SerializerRs_field(s, itoa_format(v.n))
      [] v.k = "str" -> SerializerRs_field(s, v.s)
      [] v.k = "char" -> SerializerRs_field(s, v.s)
      [] v.k = "none" -> SerializerRs_field(s, <<>>)
      [] v.k = "some" -> SerializerRs_Serialize(s, v.e[1])
      [] v.k = "unit" -> SerializerRs_field(s, <<>>)
      [] v.k = "unit_struct" -> SerializerRs_field(s, v.s)
      [] v.k = "unit_variant" -> SerializerRs_field(s, v.s)
      [] v.k = "newtype_struct" -> SerializerRs_Serialize(s, v.e[1])
      [] v.k = "newtype_variant" -> SerializerRs_Serialize(s, v.e[1])
      [] v.k \in CompoundKinds ->
           SerializerRs_SerializeElements(Compound_new(s), v.e)
      [] OTHER -> Unsupported(s)

(* Serializer::new(csv_core::Writer::new(), output), then                  *)
(* value.serialize(&mut serializer) and bytes_written(); ret is -1 for Err *)
(* or a panic                                                              *)
SerializerRs_serialize(w, value, cap) ==
    With(SerializerRs_Serialize(Serializer_new(w, cap), value),
         LAMBDA s :
        [writer |-> s.writer, output |-> s.output, err |-> s.err,
         ret |-> IF s.err = "none" THEN s.nwritten ELSE -1,
         nwritten |-> s.nwritten, log |-> s.log])

-----------------------------------------------------------------------------
(* Parsing of scalars                                                      *)

DigitValue(c) ==
    IF \E i \in 1..10 : DigitChar[i] = c
    THEN (CHOOSE i \in 1..10 : DigitChar[i] = c) - 1
    ELSE -1

I8_MIN == -128

I8_MAX == 127

(* the digit loop of FromRadix10SignedChecked: number is accumulated with  *)
(* checked_mul and checked_add (checked_sub after a '-'); once a checked   *)
(* operation fails the number stays None (ok = FALSE) while the digits are *)
(* still consumed                                                          *)
RECURSIVE from_radix_10_digits(_, _, _, _, _)
from_radix_10_digits(text, index, number, ok, minus) ==
    IF index < Len(text) /\ DigitValue(text[index + 1]) >= 0
    THEN LET n1 == IF minus THEN number * 10 - DigitValue(text[index + 1])
                   ELSE number * 10 + DigitValue(text[index + 1])
             ok1 == ok /\ n1 >= I8_MIN /\ n1 <= I8_MAX
         IN  from_radix_10_digits(text, index + 1, IF ok1 THEN n1 ELSE 0,
                                  ok1, minus)
    ELSE [number |-> number, ok |-> ok, index |-> index]

from_radix_10_signed_checked(text) ==
    LET signed == text # <<>> /\ text[1] \in {"+", "-"}
    IN  from_radix_10_digits(text, IF signed THEN 1 ELSE 0, 0, TRUE,
                             signed /\ text[1] = "-")

(* atoi::atoi::<i8>: None when no byte was used or the number overflowed;  *)
(* bytes after the digits are ignored                                      *)
atoi(text) ==
    LET r == from_radix_10_signed_checked(text)
    IN  IF r.index = 0 \/ ~r.ok THEN [some |-> FALSE, n |-> 0]
        ELSE [some |-> TRUE, n |-> r.number]

(* Bytes that are not ASCII: XC4 is the byte 0xC4, the first byte of a     *)
(* code point of two bytes; X85 is the byte 0x85, a continuation byte;     *)
(* XFF is the byte 0xFF, which no UTF-8 text holds.  Every other byte of   *)
(* the model is ASCII.                                                     *)
XC4 == "<c4>"
X85 == "<85>"
XFF == "<ff>"

(* core::str::from_utf8, with str::chars: the code points of text, each    *)
(* as the bytes of its encoding; ok = FALSE is Err(Utf8Error)              *)
RECURSIVE from_utf8(_)
from_utf8(text) ==
    IF text = <<>> THEN [ok |-> TRUE, chars |-> <<>>]
    ELSE IF text[1] \notin {XC4, X85, XFF}
    THEN With(from_utf8(Tail(text)),
              LAMBDA r : [ok |-> r.ok, chars |-> <<<<text[1]>>>> \o r.chars])
    ELSE IF text[1] = XC4 /\ Len(text) >= 2 /\ text[2] = X85
    THEN With(from_utf8(DropFirst(text, 2)),
              LAMBDA r : [ok |-> r.ok, chars |-> <<<<XC4, X85>>>> \o r.chars])
    ELSE [ok |-> FALSE, chars |-> <<>>]

-----------------------------------------------------------------------------
(* Deserializer (de.rs).  A deserializer state d holds the Reader's        *)
(* csv_core state (dfa) and field buffer (the bytes the last read_field    *)
(* call wrote at its start), the buffer's capacity cap (Reader<N>), the    *)
(* input, nread, record_end, peeked (-1 for None) and the list of the      *)
(* tokenizer calls made.                                                   *)

Reader_new(n) == [dfa |-> "StartRecord", field_buffer |-> <<>>, cap |-> n]

Deserializer_new(r, input) ==
    [dfa |-> r.dfa, field_buffer |-> r.field_buffer, cap |-> r.cap,
     input |-> input, nread |-> 0, record_end |-> FALSE, peeked |-> -1,
     log |-> <<>>]

TokenizerCall(d, f) ==
    [res |-> f.res, record_end |-> f.record_end, at |-> d.nread,
     r |-> f.nin, w |-> Len(f.out)]

(* Variant of read_bytes_impl: every completed field latches record_end *)
read_bytes_impl_latch_any(d) ==
    With(Reader_read_field(d.dfa, DropFirst(d.input, d.nread), d.cap),
         LAMBDA f :
    LET d1 == [d EXCEPT !.dfa = f.state, !.field_buffer = f.out,
                        !.nread = d.nread + f.nin,
                        !.log = Append(@, TokenizerCall(d, f))]
    IN  CASE f.res = "OutputFull" -> [d |-> d1, ok |-> FALSE, w |-> 0]
          [] f.res = "Field" ->
               [d |-> [d1 EXCEPT !.record_end = TRUE],
                ok |-> TRUE, w |-> Len(f.out)]
          [] OTHER -> [d |-> d1, ok |-> TRUE, w |-> Len(f.out)])

(* Variant of read_bytes_impl: the byte that ended the record is not       *)
(* counted in nread                                                        *)
read_bytes_impl_excl_terminator(d) ==
    With(Reader_read_field(d.dfa, DropFirst(d.input, d.nread), d.cap),
         LAMBDA f :
    LET n == IF f.res = "Field" /\ f.record_end /\ f.nin > 0
             THEN f.nin - 1 ELSE f.nin
        d1 == [d EXCEPT !.dfa = f.state, !.field_buffer = f.out,
                        !.nread = d.nread + n,
                        !.log = Append(@, TokenizerCall(d, f))]
    IN  CASE f.res = "OutputFull" -> [d |-> d1, ok |-> FALSE, w |-> 0]
          [] f.res = "Field" ->
               [d |-> [d1 EXCEPT !.record_end = f.record_end],
                ok |-> TRUE, w |-> Len(f.out)]
          [] OTHER -> [d |-> d1, ok |-> TRUE, w |-> Len(f.out)])

(* Variant of read_bytes_impl: nread is advanced after the result is       *)
(* examined, so not when the tokenizer reports OutputFull                  *)
read_bytes_impl_add_after_match(d) ==
    With(Reader_read_field(d.dfa, DropFirst(d.input, d.nread), d.cap),
         LAMBDA f :
    LET d0 == [d EXCEPT !.dfa = f.state, !.field_buffer = f.out,
                        !.log = Append(@, TokenizerCall(d, f))]
        d1 == [d0 EXCEPT !.nread = d.nread + f.nin]
    IN  CASE f.res = "OutputFull" -> [d |-> d0, ok |-> FALSE, w |-> 0]
          [] f.res = "Field" ->
               [d |-> [d1 EXCEPT !.record_end = f.record_end],
                ok |-> TRUE, w |-> Len(f.out)]
          [] OTHER -> [d |-> d1, ok |-> TRUE, w |-> Len(f.out)])

(* Variant of read_bytes_impl: nread is advanced only when the tokenizer   *)
(* reports a completed field                                               *)
read_bytes_impl_add_on_field(d) ==
    With(Reader_read_field(d.dfa, DropFirst(d.input, d.nread), d.cap),
         LAMBDA f :
    LET d0 == [d EXCEPT !.dfa = f.state, !.field_buffer = f.out,
                        !.log = Append(@, TokenizerCall(d, f))]
        d1 == [d0 EXCEPT !.nread = d.nread + f.nin]
    IN  CASE f.res = "OutputFull" -> [d |-> d0, ok |-> FALSE, w |-> 0]
          [] f.res = "Field" ->
               [d |-> [d1 EXCEPT !.record_end = f.record_end],
                ok |-> TRUE, w |-> Len(f.out)]
          [] OTHER -> [d |-> d0, ok |-> TRUE, w |-> Len(f.out)])

(* Variant of read_bytes_impl: OutputFull is not an error, the bytes that  *)
(* fitted the buffer are the field                                         *)
read_bytes_impl_ignore_full(d) ==
    With(Reader_read_field(d.dfa, DropFirst(d.input, d.nread), d.cap),
         LAMBDA f :
    LET d1 == [d EXCEPT !.dfa = f.state,
                        !.field_buffer = f.out,
                        !.nread = d.nread + f.nin,
                        !.log = Append(@, TokenizerCall(d, f))]
    IN  CASE f.res = "Field" ->
               [d |-> [d1 EXCEPT !.record_end = f.record_end],
                ok |-> TRUE, w |-> Len(f.out)]
          [] OTHER -> [d |-> d1, ok |-> TRUE, w |-> Len(f.out)])

(* read_bytes_impl: ok = FALSE is Err(Overflow) *)
read_bytes_impl(d) ==
    With(Reader_read_field(d.dfa, DropFirst(d.input, d.nread), d.cap),
         LAMBDA f :
    LET d1 == [d EXCEPT !.dfa = f.state,
                        !.field_buffer = f.out,
                        !.nread = d.nread + f.nin,
                        !.log = Append(@, TokenizerCall(d, f))]
    IN  CASE f.res = "OutputFull" -> [d |-> d1, ok |-> FALSE, w |-> 0]
          [] f.res = "Field" ->
               [d |-> [d1 EXCEPT !.record_end = f.record_end],
                ok |-> TRUE, w |-> Len(f.out)]
          [] OTHER -> [d |-> d1, ok |-> TRUE, w |-> Len(f.out)])

(* peek_bytes *)
peek_bytes(d) ==
    IF d.peeked >= 0
    THEN [d |-> d, ok |-> TRUE, bytes |-> TakeFirst(d.field_buffer, d.peeked)]
    ELSE With(read_bytes_impl(d),
              LAMBDA r :
             IF ~r.ok THEN [d |-> r.d, ok |-> FALSE, bytes |-> <<>>]
             ELSE [d |-> [r.d EXCEPT !.peeked = r.w], ok |-> TRUE,
                   bytes |-> TakeFirst(r.d.field_buffer, r.w)])

(* read_bytes *)
read_bytes(d) ==
    IF d.peeked >= 0
    THEN [d |-> [d EXCEPT !.peeked = -1], ok |-> TRUE,
          bytes |-> TakeFirst(d.field_buffer, d.peeked)]
    ELSE With(read_bytes_impl(d),
              LAMBDA r :
             IF ~r.ok THEN [d |-> r.d, ok |-> FALSE, bytes |-> <<>>]
             ELSE [d |-> r.d, ok |-> TRUE,
                   bytes |-> TakeFirst(r.d.field_buffer, r.w)])

(* Outcomes of a decoding step: st is "ok" (v the value), "err" (err the   *)
(* Error), "panic" (unimplemented!) or "diverge" (the step never returns)  *)
Ok(d, v) == [d |-> d, st |-> "ok", err |-> "none", v |-> v]

Err(d, e) == [d |-> d, st |-> "err", err |-> e, v |-> VUnit]

Panic(d) == [d |-> d, st |-> "panic", err |-> "none", v |-> VUnit]

Diverge(d) == [d |-> d, st |-> "diverge", err |-> "none", v |-> VUnit]

(* Variant of deserialize_bool: every field other than `true` is false *)
deserialize_bool_lenient(d) ==
    With(read_bytes(d),
         LAMBDA r :
        IF ~r.ok THEN Err(r.d, "Overflow")
        ELSE IF r.bytes = <<"t", "r", "u", "e">> THEN Ok(r.d, VBool(TRUE))
        ELSE Ok(r.d, VBool(FALSE)))

deserialize_bool(d) ==
    With(read_bytes(d),
         LAMBDA r :
        IF ~r.ok THEN Err(r.d, "Overflow")
        ELSE IF r.bytes = <<"t", "r", "u", "e">> THEN Ok(r.d, VBool(TRUE))
        ELSE IF r.bytes = <<"f", "a", "l", "s", "e">>
        THEN Ok(r.d, VBool(FALSE))
        ELSE Err(r.d, "InvalidBool"))

(* deserialize_i8 through read_int *)
deserialize_i8(d) ==
    With(read_bytes(d),
         LAMBDA r :
    LET a == atoi(r.bytes)
    IN  IF ~r.ok THEN Err(r.d, "Overflow")
        ELSE IF a.some THEN Ok(r.d, VInt(a.n))
        ELSE Err(r.d, "InvalidInt"))

(* deserialize_char through read_str: the field is one code point *)
deserialize_char(d) ==
    With(read_bytes(d),
         LAMBDA r :
    LET u == from_utf8(r.bytes)
    IN  IF ~r.ok THEN Err(r.d, "Overflow")
        ELSE IF ~u.ok THEN Err(r.d, "InvalidUtf8String")
        ELSE IF Len(u.chars) # 1 THEN Err(r.d, "InvalidUtf8Char")
        ELSE Ok(r.d, VChar(u.chars[1])))

(* deserialize_str / deserialize_string through read_str *)
deserialize_string(d) ==
    With(read_bytes(d),
         LAMBDA r :
        IF ~r.ok THEN Err(r.d, "Overflow")
        ELSE IF ~from_utf8(r.bytes).ok THEN Err(r.d, "InvalidUtf8String")
        ELSE Ok(r.d, VStr(r.bytes)))

(* Variant of deserialize_unit: the field is read and not looked at *)
deserialize_unit_any_field(d, v) ==
    With(read_bytes(d),
         LAMBDA r :
        IF ~r.ok THEN Err(r.d, "Overflow") ELSE Ok(r.d, v))

deserialize_unit(d, v) ==
    With(read_bytes(d),
         LAMBDA r :
        IF ~r.ok THEN Err(r.d, "Overflow")
        ELSE IF r.bytes # <<>> THEN Err(r.d, "ExpectedEmpty")
        ELSE Ok(r.d, v))

(* deserialize_enum: variant_seed reads one field and matches it against   *)
(* the variant names (an unknown name is the seed's custom error), then    *)
(* unit_variant                                                            *)
(* Variant of deserialize_enum: a field that is no variant name is taken   *)
(* for the first variant                                                   *)
deserialize_enum_default(d, names) ==
    With(read_bytes(d),
         LAMBDA r :
        IF ~r.ok THEN Err(r.d, "Overflow")
        ELSE IF \E i \in 1..Len(names) : names[i] = r.bytes
        THEN Ok(r.d, VVariant(r.bytes))
        ELSE Ok(r.d, VVariant(names[1])))

deserialize_enum(d, names) ==
    With(read_bytes(d),
         LAMBDA r :
        IF ~r.ok THEN Err(r.d, "Overflow")
        ELSE IF \E i \in 1..Len(names) : names[i] = r.bytes
        THEN Ok(r.d, VVariant(r.bytes))
        ELSE Err(r.d, "Custom"))

deserialize_newtype_struct(d) == Panic(d)

(* deserialize_any: unimplemented!() *)
deserialize_any(d) == Panic(d)

(* deserialize_enum for an enum with variants that carry data:             *)
(* variant_seed reads one field and matches it against the variant names,  *)
(* then unit_variant returns Ok(()) and newtype_variant_seed,              *)
(* tuple_variant and struct_variant are unimplemented!()                   *)
deserialize_data_enum(d, names, payloads) ==
    With(read_bytes(d),
         LAMBDA r :
        IF ~r.ok THEN Err(r.d, "Overflow")
        ELSE IF \A i \in 1..Len(names) : names[i] # r.bytes
        THEN Err(r.d, "Custom")
        ELSE IF payloads[CHOOSE i \in 1..Len(names) : names[i] = r.bytes]
                  = TUnit
        THEN Ok(r.d, VVariant(r.bytes))
        ELSE Panic(r.d))

(* what decides the next step of a decoding: everything but the log *)
Control(d) == [d EXCEPT !.log = <<>>]

RECURSIVE Deserialize(_, _), next_element_seed(_, _),
          VisitFixed(_, _, _), VisitVec(_, _, _), deserialize_option(_, _)

(* deserialize_map: visitor.visit_seq(self).  A visitor without visit_seq  *)
(* returns invalid_type, a custom error; another asks for its elements.    *)
deserialize_map(d, ts) ==
    IF ts = <<>> THEN Err(d, "Custom")
    ELSE With(VisitFixed(d, ts, <<>>),
              LAMBDA r :
                IF r.st = "ok" THEN Ok(r.d, VMap(r.v))
                ELSE [r EXCEPT !.v = VUnit])

(* Variant of next_element_seed: an element is requested whether or not    *)
(* the record has ended                                                    *)
next_element_seed_unguarded(d, t) ==
    With(Deserialize(d, t),
         LAMBDA r :
        [r EXCEPT !.v = IF r.st = "ok" THEN <<r.v>> ELSE <<>>])

(* SeqAccess::next_element_seed: v is <<x>> for Some(x), <<>> for None *)
next_element_seed(d, t) ==
    IF d.record_end THEN [d |-> d, st |-> "ok", err |-> "none", v |-> <<>>]
    ELSE With(Deserialize(d, t),
              LAMBDA r :
             [r EXCEPT !.v = IF r.st = "ok" THEN <<r.v>> ELSE <<>>])

(* visit_seq of a tuple, an array, a tuple struct or a struct: one         *)
(* next_element per element; None is invalid_length, a custom error        *)
VisitFixed(d, ts, acc) ==
    IF ts = <<>>
    THEN [d |-> d, st |-> "ok", err |-> "none", v |-> acc]
    ELSE With(next_element_seed(d, Head(ts)),
              LAMBDA r :
             IF r.st # "ok" THEN r
             ELSE IF r.v = <<>>
             THEN [d |-> r.d, st |-> "err", err |-> "Custom", v |-> <<>>]
             ELSE VisitFixed(r.d, Tail(ts), acc \o r.v))

(* visit_seq of a Vec: next_element until None.  An element request that   *)
(* returns Some and leaves the deserializer as it found it is repeated     *)
(* for ever.                                                               *)
VisitVec(d, t, acc) ==
    With(next_element_seed(d, t),
         LAMBDA r :
        IF r.st # "ok" THEN r
        ELSE IF r.v = <<>>
        THEN [d |-> r.d, st |-> "ok", err |-> "none", v |-> acc]
        ELSE IF Control(r.d) = Control(d)
        THEN [d |-> r.d, st |-> "diverge", err |-> "none", v |-> <<>>]
        ELSE VisitVec(r.d, t, acc \o r.v))

(* deserialize_option: visit_none, or visit_some(self) which deserializes  *)
(* the inner type from the same deserializer                               *)
deserialize_option(d, t) ==
    With(peek_bytes(d),
         LAMBDA p :
        IF ~p.ok THEN Err(p.d, "Overflow")
        ELSE IF p.bytes = <<>> THEN Ok(p.d, VNone)
        ELSE With(Deserialize(p.d, t),
                  LAMBDA r :
                 IF r.st = "ok" THEN Ok(r.d, VSome(r.v)) ELSE r))

(* T::deserialize(&mut deserializer): the hook each type calls *)
Deserialize(d, t) ==
    CASE t.k = "bool" -> deserialize_bool(d)
      [] t.k = "i8" -> deserialize_i8(d)
      [] t.k = "str" -> deserialize_string(d)
      [] t.k = "char" -> deserialize_char(d)
      [] t.k = "unit" -> deserialize_unit(d, VUnit)
      [] t.k = "unit_struct" -> deserialize_unit(d, VUnitStruct(t.s[1]))
      [] t.k = "enum" -> deserialize_enum(d, t.s)
      [] t.k = "option" -> deserialize_option(d, t.e[1])
      [] t.k = "newtype_struct" -> deserialize_newtype_struct(d)
      [] t.k = "any" -> deserialize_any(d)
      [] t.k = "data_enum" -> deserialize_data_enum(d, t.s, t.e)
      [] t.k = "map" -> deserialize_map(d, t.e)
      [] t.k \in FixedKinds ->
           With(VisitFixed(d, t.e, <<>>),
                LAMBDA r :
                  IF r.st = "ok" THEN Ok(r.d, VComp(t.k, r.v))
                  ELSE [r EXCEPT !.v = VUnit])
      [] t.k = "seq" ->
           With(VisitVec(d, t.e[1], <<>>),
                LAMBDA r :
                  IF r.st = "ok" THEN Ok(r.d, VComp("seq", r.v))
                  ELSE [r EXCEPT !.v = VUnit])

(* Variant of Reader::deserialize: when the value is decoded and the       *)
(* record has not ended, one more field is read                            *)
Reader_deserialize_read_on(r, t, input) ==
    With(Deserialize(Deserializer_new(r, input), t),
         LAMBDA x :
    LET y == IF x.st = "ok" /\ ~x.d.record_end
             THEN read_bytes_impl(x.d).d ELSE x.d
    IN  [reader |-> [dfa |-> y.dfa, field_buffer |-> y.field_buffer,
                     cap |-> r.cap],
         st |-> x.st, err |-> x.err, value |-> x.v,
         nread |-> IF x.st = "ok" THEN y.nread ELSE -1,
         d |-> y])

(* Reader::deserialize::<T>(input) on a reader r.  nread is the returned   *)
(* count, -1 unless the call returns Ok.                                   *)
Reader_deserialize(r, t, input) ==
    With(Deserialize(Deserializer_new(r, input), t),
         LAMBDA x :
        [reader |-> [dfa |-> x.d.dfa, field_buffer |-> x.d.field_buffer,
                     cap |-> r.cap],
         st |-> x.st, err |-> x.err, value |-> x.v,
         nread |-> IF x.st = "ok" THEN x.d.nread ELSE -1,
         d |-> x.d])

-----------------------------------------------------------------------------
(* The values serialized: every value of the types SerTypes               *)

MaxSeqLen == 2

IntVals == {5, -1}

StrVals == {<<>>, <<"a">>, <<"a", Comma>>, <<Quote, LF>>}

NameR == <<"R">>
NameA == <<"A">>
NameB == <<"B">>

RECURSIVE Product(_)
Product(sets) ==
    IF sets = <<>> THEN {<<>>}
    ELSE {<<x>> \o rest : x \in Head(sets), rest \in Product(Tail(sets))}

SeqsUpTo(S, n) == UNION {[1..m -> S] : m \in 0..n}

RECURSIVE ValuesOf(_)
ValuesOf(t) ==
    CASE t.k = "bool" -> {VBool(TRUE), VBool(FALSE)}
      [] t.k = "i8" -> {VInt(n) : n \in IntVals}
      [] t.k = "unit" -> {VUnit}
      [] t.k = "str" -> {VStr(x) : x \in StrVals}
      [] t.k = "option" -> {VNone} \cup {VSome(v) : v \in ValuesOf(t.e[1])}
      [] t.k = "unit_struct" -> {VUnitStruct(t.s[1])}
      [] t.k = "enum" -> {VVariant(t.s[i]) : i \in 1..Len(t.s)}
      [] t.k = "newtype_struct" -> {VNewtype(v) : v \in ValuesOf(t.e[1])}
      [] t.k \in FixedKinds ->
           {VComp(t.k, e) :
              e \in Product([i \in 1..Len(t.e) |-> ValuesOf(t.e[i])])}
      [] t.k = "seq" ->
           {VComp("seq", e) : e \in SeqsUpTo(ValuesOf(t.e[1]), MaxSeqLen)}

TPair == TComp("tuple", <<TInt, TInt>>)
TArr2 == TComp("array", <<TInt, TInt>>)
TArr0 == TComp("array", <<>>)
TXY == TComp("struct", <<TInt, TInt>>)
(* struct Data { t: (i8, i8), a: [i8; 2], s: Struct { x, y } } *)
TData == TComp("struct", <<TPair, TArr2, TXY>>)

LeafTypes ==
    {TBool, TInt, TUnit, TStr, TOption(TInt), TOption(TUnit),
     TUnitStruct(NameR), TEnum(<<NameA, NameB>>), TNewtype(TInt)}

CompoundTypes ==
    {TPair, TArr2, TArr0, TXY, TData,
     TComp("tuple", <<TUnit, TUnit>>),
     TComp("struct", <<TStr, TInt>>),
     TComp("tuple_struct", <<TBool, TOption(TInt)>>),
     TComp("tuple", <<TPair, TInt>>),
     TComp("tuple", <<TInt, TXY>>),
     TComp("struct", <<TArr0, TInt>>),
     TComp("tuple", <<TInt, TArr0, TInt>>),
     TSeq(TInt), TSeq(TUnit), TSeq(TPair),
     TComp("tuple", <<TSeq(TInt), TInt>>),
     TComp("tuple", <<TInt, TSeq(TInt)>>),
     TNewtype(TPair), TOption(TPair)}

SerTypes == LeafTypes \cup CompoundTypes

(* Lengths of the output slice: every small one, and the tests' [0; 32] *)
MaxSmallCap == 6

BigCap == 32

OutCaps == 0..MaxSmallCap \cup {BigCap}

-----------------------------------------------------------------------------
(* Encoding: a Writer is constructed, then serialize is called on it       *)

NoSer ==
    [calls |-> 0, type |-> TUnit, value |-> VUnit, cap |-> 0,
     pre |-> WriterState_new,
     res |-> [writer |-> WriterState_new, output |-> <<>>, err |-> "none",
              ret |-> -1, nwritten |-> 0, log |-> <<>>]]

NoDe ==
    [calls |-> 0, type |-> TUnit, input |-> <<>>, pre |-> Reader_new(0),
     res |-> [reader |-> Reader_new(0), st |-> "none", err |-> "none",
              value |-> VUnit, nread |-> -1,
              d |-> Deserializer_new(Reader_new(0), <<>>)]]

(* The record loops of the crate documentation, before their first call:   *)
(* enc is the encoding loop (the values written, the written part of the   *)
(* output buffer of length cap, the total of the returned counts), dec the *)
(* decoding loop (the records decoded from input, the cursor pos)          *)
NoEnc == [calls |-> 0, cap |-> 0, output |-> <<>>, total |-> 0,
          values |-> <<>>, st |-> "run"]

NoDec == [calls |-> 0, type |-> TUnit, input |-> <<>>, pos |-> 0,
          values |-> <<>>, st |-> "run"]

(* Writer::new / Writer::from_builder *)
WriterNew ==
    /\ writer' = WriterState_new
    /\ ser' = NoSer
    /\ UNCHANGED <<reader, de, enc, dec>>

(* Writer::serialize, the first call on a Writer *)
WriterSerialize ==
    /\ ser.calls = 0
    /\ \E t \in SerTypes, cap \in OutCaps :
          \E v \in ValuesOf(t) :
             \E r \in {Writer_serialize(writer, v, cap)} :
                 /\ writer' = r.writer
                 /\ ser' = [calls |-> 1, type |-> t, value |-> v,
                            cap |-> cap, pre |-> writer, res |-> r]
    /\ UNCHANGED <<reader, de, enc, dec>>

InitSer ==
    /\ writer = WriterState_new
    /\ ser = NoSer
    /\ reader = Reader_new(0)
    /\ de = NoDe
    /\ enc = NoEnc
    /\ dec = NoDec

NextSer == WriterNew \/ WriterSerialize

SpecSer == InitSer /\ [][NextSer]_vars

-----------------------------------------------------------------------------
(* The inputs decoded: every byte string of at most MaxRaw bytes of        *)
(* RawBytes, and the records of 1..MaxFields fields of WireFields and of   *)
(* 1..MaxIntFields fields of IntFields, each with or without a terminator  *)
(* and, after a terminator, with or without a following record             *)

MaxRaw == 3

MaxFields == 2

MaxIntFields == 6

RawBytes == {"1", "a", Comma, LF, CR, Quote}

RawInputs == SeqsUpTo(RawBytes, MaxRaw)

WireFields ==
    {<<>>, <<"5">>, <<"-", "1">>, <<"t", "r", "u", "e">>,
     <<Quote, "a", Comma, Quote>>}

IntFields == {<<"5">>, <<"1", "2">>}

Terminators == {<<>>, <<LF>>, <<CR, LF>>}

Following == {<<>>, <<"7", Comma, "8", LF>>}

RECURSIVE Join(_)
Join(fields) ==
    IF Len(fields) = 1 THEN fields[1]
    ELSE fields[1] \o <<Comma>> \o Join(Tail(fields))

FieldLists(S, n) == SeqsUpTo(S, n) \ {<<>>}

RecordsOf(S, n) ==
    LET bodies == {Join(fs) : fs \in FieldLists(S, n)}
    IN  bodies \cup {b \o term \o next :
                        b \in bodies,
                        term \in Terminators \ {<<>>},
                        next \in Following}

DeInputs ==
    RawInputs \cup RecordsOf(WireFields, MaxFields)
              \cup RecordsOf(IntFields, MaxIntFields)

DeTypes == LeafTypes \cup CompoundTypes

(* Capacities N of the field buffer of a Reader<N> *)
BufCaps == {0, 2, 4}

-----------------------------------------------------------------------------
(* Decoding: a Reader<N> is constructed, then deserialize is called on it  *)

(* Reader::new / Reader::from_builder *)
ReaderNew ==
    /\ \E n \in BufCaps : reader' = Reader_new(n)
    /\ de' = NoDe
    /\ UNCHANGED <<writer, ser, enc, dec>>

(* Reader::deserialize, the first call on a Reader *)
ReaderDeserialize ==
    /\ de.calls = 0
    /\ \E t \in DeTypes, input \in DeInputs :
          \E r \in {Reader_deserialize(reader, t, input)} :
              /\ reader' = r.reader
              /\ de' = [calls |-> 1, type |-> t, input |-> input,
                        pre |-> reader, res |-> r]
    /\ UNCHANGED <<writer, ser, enc, dec>>

InitDe ==
    /\ writer = WriterState_new
    /\ ser = NoSer
    /\ reader \in {Reader_new(n) : n \in BufCaps}
    /\ de = NoDe
    /\ enc = NoEnc
    /\ dec = NoDec

NextDe == ReaderNew \/ ReaderDeserialize

SpecDe == InitDe /\ [][NextDe]_vars

-----------------------------------------------------------------------------
(* The encoding loop of the crate documentation: serialize is called on    *)
(* one Writer for each value in turn, into output[total..], and the        *)
(* returned count is added to total; an Err ends the loop (the ? operator) *)

MaxRecords == 2

LoopSerTypes ==
    {TUnit, TStr, TPair, TSeq(TInt), TComp("struct", <<TStr, TInt>>)}

LoopCaps == {4, 8, BigCap}

SerializeRecord ==
    /\ enc.st = "run"
    /\ enc.calls < MaxRecords
    /\ \E t \in LoopSerTypes :
          \E v \in ValuesOf(t) :
          \E r \in {Writer_serialize(writer, v, enc.cap - enc.total)} :
             /\ writer' = r.writer
             /\ ser' = [calls |-> ser.calls + 1, type |-> t,
                        value |-> v, cap |-> enc.cap - enc.total,
                        pre |-> writer, res |-> r]
             /\ enc' = [enc EXCEPT
                          !.calls = @ + 1,
                          !.output = TakeFirst(@, enc.total) \o r.output,
                          !.total = IF r.ret >= 0 THEN @ + r.ret ELSE @,
                          !.values = Append(@, v),
                          !.st = IF r.ret >= 0 THEN "run" ELSE "err"]
    /\ UNCHANGED <<reader, de, dec>>

InitSerLoop ==
    /\ writer = WriterState_new
    /\ ser = NoSer
    /\ reader = Reader_new(0)
    /\ de = NoDe
    /\ enc \in {[NoEnc EXCEPT !.cap = c] : c \in LoopCaps}
    /\ dec = NoDec

NextSerLoop == SerializeRecord

SpecSerLoop == InitSerLoop /\ [][NextSerLoop]_vars

-----------------------------------------------------------------------------
(* The decoding loop of the crate documentation: while pos < len(input),   *)
(* deserialize is called on one Reader with input[pos..] and the returned  *)
(* nread is added to pos; an Err ends the loop                             *)

MaxLoopCalls == 3

LoopFields == {<<"5">>, <<Quote, "a", Comma, Quote>>}

LoopTerminators == {<<LF>>, <<CR>>, <<CR, LF>>}

LoopRecords ==
    {Join(fs) \o term : fs \in FieldLists(LoopFields, 2),
                        term \in LoopTerminators}

LoopInputs == {Concat(rs) : rs \in SeqsUpTo(LoopRecords, MaxRecords)}

LoopTypes == {TInt, TPair, TComp("struct", <<TStr, TInt>>)}

DeserializeRecord ==
    /\ dec.st = "run"
    /\ dec.pos < Len(dec.input)
    /\ dec.calls < MaxLoopCalls
    /\ \E r \in {Reader_deserialize(reader, dec.type,
                                     DropFirst(dec.input, dec.pos))} :
          /\ reader' = r.reader
          /\ de' = [calls |-> de.calls + 1, type |-> dec.type,
                    input |-> DropFirst(dec.input, dec.pos),
                    pre |-> reader, res |-> r]
          /\ dec' = [dec EXCEPT
                       !.calls = @ + 1,
                       !.pos = IF r.st = "ok" THEN @ + r.nread ELSE @,
                       !.values = IF r.st = "ok" THEN Append(@, r.value)
                                  ELSE @,
                       !.st = IF r.st = "ok" THEN "run" ELSE r.st]
    /\ UNCHANGED <<writer, ser, enc>>

InitDeLoop ==
    /\ writer = WriterState_new
    /\ ser = NoSer
    /\ reader \in {Reader_new(n) : n \in BufCaps \ {0}}
    /\ de = NoDe
    /\ enc = NoEnc
    /\ dec \in {[NoDec EXCEPT !.type = t, !.input = i] :
                  t \in LoopTypes, i \in LoopInputs}

NextDeLoop == DeserializeRecord

SpecDeLoop == InitDeLoop /\ [][NextDeLoop]_vars

-----------------------------------------------------------------------------
(* Calls of deserialize on one Reader with unrelated inputs                *)

MaxCalls == 2

MaxReuseRaw == 2

ReuseInputs ==
    SeqsUpTo(RawBytes, MaxReuseRaw)
      \cup {<<"1", Comma, "1">>, <<"1", Comma, "1", LF>>,
            <<Quote, "1", Quote, "1">>}

ReuseTypes == {TInt, TStr, TPair, TOption(TInt)}

ReaderDeserializeAgain ==
    /\ de.calls < MaxCalls
    /\ \E t \in ReuseTypes, input \in ReuseInputs :
          \E r \in {Reader_deserialize(reader, t, input)} :
              /\ reader' = r.reader
              /\ de' = [calls |-> de.calls + 1, type |-> t, input |-> input,
                        pre |-> reader, res |-> r]
    /\ UNCHANGED <<writer, ser, enc, dec>>

NextDeReuse == ReaderNew \/ ReaderDeserializeAgain

SpecDeReuse == InitDe /\ [][NextDeReuse]_vars

-----------------------------------------------------------------------------
(* Decoding of options: deserialize is called on a new Reader for an       *)
(* Option, or for a tuple with an Option element                           *)

TArr1 == TComp("array", <<TInt>>)

OptionTypes ==
    {TOption(TInt), TOption(TUnit), TOption(TStr), TOption(TPair),
     TOption(TArr1), TOption(TSeq(TInt)),
     TComp("tuple", <<TOption(TInt), TInt>>),
     TComp("tuple", <<TInt, TOption(TInt)>>)}

(* Reader::deserialize::<T> for a type T of OptionTypes *)
ReaderDeserializeOption ==
    /\ de.calls = 0
    /\ \E t \in OptionTypes, input \in DeInputs :
          \E r \in {Reader_deserialize(reader, t, input)} :
              /\ reader' = r.reader
              /\ de' = [calls |-> 1, type |-> t, input |-> input,
                        pre |-> reader, res |-> r]
    /\ UNCHANGED <<writer, ser, enc, dec>>

NextDeOpt == ReaderNew \/ ReaderDeserializeOption

SpecDeOpt == InitDe /\ [][NextDeOpt]_vars

-----------------------------------------------------------------------------
(* Decoding of booleans: deserialize::<bool> is called on a new Reader<N>, *)
(* N one of the capacities of the bool tests                               *)

BoolCaps == {0, 3, 4, 5}

BoolFields ==
    {<<>>, <<"t", "r", "u", "e">>, <<"f", "a", "l", "s", "e">>,
     <<"t", "r", "u">>, <<"T", "r", "u", "e">>, <<"t", "r", "u", "e", " ">>,
     <<Quote, "t", "r", "u", "e", Quote>>,
     <<Quote, "f", "a", "l", "s", "e", Quote>>,
     <<"1">>, <<"o", "v", "e", "r", "f", "l", "o", "w">>}

BoolInputs ==
    RawInputs \cup {f \o term : f \in BoolFields, term \in Terminators}
              \cup {f \o <<Comma>> \o g : f \in BoolFields, g \in BoolFields}

(* Reader::<N>::new for a capacity of BoolCaps *)
ReaderNewBool ==
    /\ \E n \in BoolCaps : reader' = Reader_new(n)
    /\ de' = NoDe
    /\ UNCHANGED <<writer, ser, enc, dec>>

(* Reader::deserialize::<bool> *)
ReaderDeserializeBool ==
    /\ de.calls = 0
    /\ \E input \in BoolInputs :
          \E r \in {Reader_deserialize(reader, TBool, input)} :
              /\ reader' = r.reader
              /\ de' = [calls |-> 1, type |-> TBool, input |-> input,
                        pre |-> reader, res |-> r]
    /\ UNCHANGED <<writer, ser, enc, dec>>

InitDeBool ==
    /\ writer = WriterState_new
    /\ ser = NoSer
    /\ reader \in {Reader_new(n) : n \in BoolCaps}
    /\ de = NoDe
    /\ enc = NoEnc
    /\ dec = NoDec

NextDeBool == ReaderNewBool \/ ReaderDeserializeBool

SpecDeBool == InitDeBool /\ [][NextDeBool]_vars

-----------------------------------------------------------------------------
(* Scalars: a char, an i8 or a unit-like enum is decoded by a new          *)
(* Reader<N>, and a char or a variant is encoded by a new Writer           *)

NameC == <<"C">>

TABC == TEnum(<<NameA, NameB, NameC>>)

ScalarTypes == {TChar, TInt, TABC}

ScalarCaps == {0, 1, 2, 4}

CharFields ==
    {<<"a">>, <<"a", "b">>, <<XC4, X85>>, <<XC4, X85, XC4, X85>>,
     <<"a", XC4, X85>>, <<XC4>>, <<X85>>, <<XFF>>, <<"a", XFF>>,
     <<XC4, "a">>}

IntTexts ==
    {<<"5">>, <<"-", "1">>, <<"1", "2", "3">>, <<"-", "1", "2", "3">>,
     <<"2", "5", "6">>, <<"1", "2", "7">>, <<"1", "2", "8">>,
     <<"-", "1", "2", "8">>, <<"-", "1", "2", "9">>, <<"1", "a">>,
     <<"a", "1">>, <<"1", " ">>, <<"1", ".", "5">>}

NameFields == {<<"A">>, <<"B">>, <<"C">>, <<"D">>, <<"A", "B">>, <<"a">>}

ScalarFields == {<<>>} \cup CharFields \cup IntTexts \cup NameFields

ScalarInputs ==
    {f \o term : f \in ScalarFields, term \in Terminators}
      \cup {f \o <<Comma>> \o f : f \in ScalarFields}

ScalarValues ==
    {VVariant(NameA), VVariant(NameB), VChar(<<"a">>),
     VChar(<<XC4, X85>>), VChar(<<Comma>>)}

ScalarOutCaps == {0, 1, 2, BigCap}

(* Reader::<N>::new for a capacity of ScalarCaps *)
ReaderNewScalar ==
    /\ \E n \in ScalarCaps : reader' = Reader_new(n)
    /\ de' = NoDe
    /\ UNCHANGED <<writer, ser, enc, dec>>

(* Reader::deserialize::<T> for a type T of ScalarTypes *)
ReaderDeserializeScalar ==
    /\ de.calls = 0
    /\ \E t \in ScalarTypes, input \in ScalarInputs :
          \E r \in {Reader_deserialize(reader, t, input)} :
              /\ reader' = r.reader
              /\ de' = [calls |-> 1, type |-> t, input |-> input,
                        pre |-> reader, res |-> r]
    /\ UNCHANGED <<writer, ser, enc, dec>>

(* Writer::serialize of a value of ScalarValues *)
WriterSerializeScalar ==
    /\ ser.calls = 0
    /\ \E v \in ScalarValues, cap \in ScalarOutCaps :
          \E r \in {Writer_serialize(writer, v, cap)} :
              /\ writer' = r.writer
              /\ ser' = [calls |-> 1,
                         type |-> IF v.k = "char" THEN TChar ELSE TABC,
                         value |-> v, cap |-> cap, pre |-> writer,
                         res |-> r]
    /\ UNCHANGED <<reader, de, enc, dec>>

InitScalar ==
    /\ writer = WriterState_new
    /\ ser = NoSer
    /\ reader \in {Reader_new(n) : n \in ScalarCaps}
    /\ de = NoDe
    /\ enc = NoEnc
    /\ dec = NoDec

NextScalar ==
    ReaderNewScalar \/ ReaderDeserializeScalar \/ WriterSerializeScalar

SpecScalar == InitScalar /\ [][NextScalar]_vars

-----------------------------------------------------------------------------
(* Shapes outside flat records: enums with variants that carry data, maps, *)
(* deserialize_any, custom errors; and newtype structs.  Each is encoded   *)
(* by a new Writer and decoded by a new Reader<N>.                         *)

(* enum Data { A(i8), B, C(i8, i8), D { x: i8 } } *)
NameD == <<"D">>

TDataABCD ==
    TDataEnum(<<NameA, NameB, NameC, NameD>>,
              <<TNewtype(TInt), TUnit, TPair, TXY>>)

ShapeValues ==
    {VNewtypeVariant(NameA, VInt(5)), VVariant(NameB),
     VTupleVariant(NameC, <<VInt(5), VInt(-1)>>),
     VStructVariant(NameD, <<VInt(5)>>),
     VMap(<<>>), VMap(<<VInt(5), VInt(-1)>>), VCustom,
     VComp("tuple", <<VInt(5), VNewtypeVariant(NameA, VInt(5))>>),
     VComp("tuple", <<VInt(5), VMap(<<>>)>>),
     VInt(5), VStr(<<"a", Comma>>), VComp("tuple", <<VInt(5), VInt(-1)>>),
     VNewtype(VInt(5)), VNewtype(VStr(<<"a", Comma>>)),
     VNewtype(VComp("tuple", <<VInt(5), VInt(-1)>>))}

ShapeOutCaps == {0, 2, BigCap}

ShapeTypes ==
    {TDataABCD, TComp("tuple", <<TInt, TDataABCD>>),
     TMap(<<>>), TMap(<<TInt, TInt>>), TAny,
     TComp("tuple", <<TInt, TAny>>),
     TInt, TPair, TNewtype(TInt), TNewtype(TPair)}

ShapeFields == {<<>>, <<"5">>, <<"A">>, <<"B">>, <<"C">>, <<"E">>}

ShapeInputs ==
    {<<>>} \cup {Join(fs) \o term : fs \in FieldLists(ShapeFields, 2),
                                   term \in Terminators}

ShapeCaps == {0, 2}

(* Reader::<N>::new for a capacity of ShapeCaps *)
ReaderNewShape ==
    /\ \E n \in ShapeCaps : reader' = Reader_new(n)
    /\ de' = NoDe
    /\ UNCHANGED <<writer, ser, enc, dec>>

(* Reader::deserialize::<T> for a type T of ShapeTypes *)
ReaderDeserializeShape ==
    /\ de.calls = 0
    /\ \E t \in ShapeTypes, input \in ShapeInputs :
          \E r \in {Reader_deserialize(reader, t, input)} :
              /\ reader' = r.reader
              /\ de' = [calls |-> 1, type |-> t, input |-> input,
                        pre |-> reader, res |-> r]
    /\ UNCHANGED <<writer, ser, enc, dec>>

(* Writer::serialize of a value of ShapeValues *)
WriterSerializeShape ==
    /\ ser.calls = 0
    /\ \E v \in ShapeValues, cap \in ShapeOutCaps :
          \E r \in {Writer_serialize(writer, v, cap)} :
              /\ writer' = r.writer
              /\ ser' = [calls |-> 1, type |-> TAny, value |-> v,
                         cap |-> cap, pre |-> writer, res |-> r]
    /\ UNCHANGED <<reader, de, enc, dec>>

InitShapes ==
    /\ writer = WriterState_new
    /\ ser = NoSer
    /\ reader \in {Reader_new(n) : n \in ShapeCaps}
    /\ de = NoDe
    /\ enc = NoEnc
    /\ dec = NoDec

NextShapes ==
    ReaderNewShape \/ ReaderDeserializeShape \/ WriterSerializeShape

SpecShapes == InitShapes /\ [][NextShapes]_vars

-----------------------------------------------------------------------------
(* Decoding of variable-length sequences: deserialize is called on a new   *)
(* Reader for a Vec whose elements take one field each                     *)

SeqTypes ==
    {TSeq(TInt), TSeq(TStr), TSeq(TUnit), TSeq(TBool),
     TSeq(TOption(TInt)), TSeq(TOption(TStr))}

(* Reader::deserialize::<Vec<T>> for a type Vec<T> of SeqTypes *)
ReaderDeserializeSeq ==
    /\ de.calls = 0
    /\ \E t \in SeqTypes, input \in DeInputs :
          \E r \in {Reader_deserialize(reader, t, input)} :
              /\ reader' = r.reader
              /\ de' = [calls |-> 1, type |-> t, input |-> input,
                        pre |-> reader, res |-> r]
    /\ UNCHANGED <<writer, ser, enc, dec>>

NextDeSeq == ReaderNew \/ ReaderDeserializeSeq

SpecDeSeq == InitDe /\ [][NextDeSeq]_vars

-----------------------------------------------------------------------------
(* Encoding with the Serializer of serializer.rs: a Serializer is made     *)
(* over a new csv_core writer and an output slice, and a value is          *)
(* serialized into it                                                      *)

SerializerRsTypes ==
    {TInt, TUnit, TPair, TXY, TData, TSeq(TInt), TNewtype(TPair),
     TComp("tuple", <<TPair, TInt>>), TComp("tuple", <<TInt, TXY>>)}

(* Serializer::new, value.serialize(&mut serializer), bytes_written() *)
SerializerRsSerialize ==
    /\ ser.calls = 0
    /\ \E t \in SerializerRsTypes, cap \in OutCaps :
          \E v \in ValuesOf(t) :
             \E r \in {SerializerRs_serialize(writer, v, cap)} :
                 /\ writer' = r.writer
                 /\ ser' = [calls |-> 1, type |-> t, value |-> v,
                            cap |-> cap, pre |-> writer, res |-> r]
    /\ UNCHANGED <<reader, de, enc, dec>>

NextSerializerRs == WriterNew \/ SerializerRsSerialize

SpecSerializerRs == InitSer /\ [][NextSerializerRs]_vars

-----------------------------------------------------------------------------
(* Encoding after a failure: serialize is called on a Writer whose first   *)
(* serialize call returned Err(Overflow), with an output slice of BigCap   *)
(* bytes                                                                   *)

(* Writer::serialize, the first call on a Writer *)
WriterSerializeFirst ==
    /\ ser.calls = 0
    /\ \E t \in LoopSerTypes, cap \in OutCaps :
          \E v \in ValuesOf(t) :
             \E r \in {Writer_serialize(writer, v, cap)} :
                 /\ writer' = r.writer
                 /\ ser' = [calls |-> 1, type |-> t, value |-> v,
                            cap |-> cap, pre |-> writer, res |-> r]
    /\ UNCHANGED <<reader, de, enc, dec>>

(* Writer::serialize on the Writer of a call that returned Err(Overflow) *)
WriterSerializeRetry ==
    /\ ser.calls = 1
    /\ ser.res.err = "Overflow"
    /\ \E t \in LoopSerTypes :
          \E v \in ValuesOf(t) :
             \E r \in {Writer_serialize(writer, v, BigCap)} :
                 /\ writer' = r.writer
                 /\ ser' = [calls |-> 2, type |-> t, value |-> v,
                            cap |-> BigCap, pre |-> writer, res |-> r]
    /\ UNCHANGED <<reader, de, enc, dec>>

NextSerRetry == WriterNew \/ WriterSerializeFirst \/ WriterSerializeRetry

SpecSerRetry == InitSer /\ [][NextSerRetry]_vars

-----------------------------------------------------------------------------
(* Notions the properties are stated with                                  *)

ScalarKinds == {"bool", "i8", "str", "unit"}

(* the scalar leaves of a value, in traversal order *)
RECURSIVE Leaves(_)
Leaves(v) ==
    IF v.k \in CompoundKinds
    THEN Concat([i \in 1..Len(v.e) |-> Leaves(v.e[i])])
    ELSE IF v.k \in {"some", "newtype_struct"} THEN Leaves(v.e[1])
    ELSE <<v>>

(* a value built from nested tuples, arrays and structs over scalars *)
RECURSIVE IsNestedValue(_)
IsNestedValue(v) ==
    /\ v.k \in FixedKinds
    /\ \A i \in 1..Len(v.e) : v.e[i].k \in ScalarKinds \/ IsNestedValue(v.e[i])

(* the flat tuple of the leaves of v; the tuple of no element is unit *)
FlatTuple(v) ==
    IF Leaves(v) = <<>> THEN VUnit ELSE VComp("tuple", Leaves(v))

CountOp(log, op) == Cardinality({i \in 1..Len(log) : log[i].op = op})

(* the first record of a byte string as the tokenizer splits it, with a    *)
(* buffer no field overflows: its fields, each with the offset at which    *)
(* the call that produced it stopped, and what ended it                    *)
RECURSIVE Tokenize(_, _, _, _)
Tokenize(state, input, pos, acc) ==
    With(Reader_read_field(state, DropFirst(input, pos), Len(input) + 1),
         LAMBDA f :
    LET field == [bytes |-> f.out, end |-> pos + f.nin]
    IN  CASE f.res = "Field" /\ f.record_end ->
               [fields |-> Append(acc, field), by |-> "terminator",
                state |-> f.state]
          [] f.res = "Field" /\ ~f.record_end ->
               Tokenize(f.state, input, pos + f.nin, Append(acc, field))
          [] f.res = "InputEmpty" ->
               [fields |-> Append(acc, field), by |-> "exhaustion",
                state |-> f.state]
          [] OTHER ->
               [fields |-> acc, by |-> "exhaustion", state |-> f.state])

FirstRecord(input) == Tokenize("StartRecord", input, 0, <<>>)

(* the length of the first record with the whole of its terminator *)
RecordLen(input) ==
    LET rec == FirstRecord(input)
        end == rec.fields[Len(rec.fields)].end
    IN  IF rec.state = "CRLF" /\ end < Len(input) /\ input[end + 1] = LF
        THEN end + 1 ELSE end

(* a type built from nested tuples, arrays and structs over scalars *)
RECURSIVE IsFlatType(_)
IsFlatType(t) ==
    /\ t.k \in FixedKinds
    /\ \A i \in 1..Len(t.e) : t.e[i].k \in ScalarKinds \/ IsFlatType(t.e[i])

RECURSIVE LeafTypesOf(_)
LeafTypesOf(t) ==
    IF t.k \in FixedKinds
    THEN Concat([i \in 1..Len(t.e) |-> LeafTypesOf(t.e[i])])
    ELSE <<t>>

(* the canonical text of a scalar, and the scalar a canonical text denotes *)
LeafValid(t, bytes) ==
    CASE t.k = "bool" ->
           bytes \in {<<"t", "r", "u", "e">>, <<"f", "a", "l", "s", "e">>}
      [] t.k = "i8" -> \E n \in I8_MIN..I8_MAX : itoa_format(n) = bytes
      [] t.k = "unit" -> bytes = <<>>
      [] t.k = "str" -> TRUE

LeafValue(t, bytes) ==
    CASE t.k = "bool" -> VBool(bytes = <<"t", "r", "u", "e">>)
      [] t.k = "i8" ->
           VInt(CHOOSE n \in I8_MIN..I8_MAX : itoa_format(n) = bytes)
      [] t.k = "unit" -> VUnit
      [] t.k = "str" -> VStr(bytes)

(* v has the shape of t *)
RECURSIVE Conforms(_, _)
Conforms(v, t) ==
    /\ v.k = t.k
    /\ t.k \in FixedKinds =>
         /\ Len(v.e) = Len(t.e)
         /\ \A i \in 1..Len(t.e) : Conforms(v.e[i], t.e[i])

RECURSIVE SumR(_)
SumR(log) == IF log = <<>> THEN 0 ELSE Head(log).r + SumR(Tail(log))

(* the call recorded in de was made on a newly constructed Reader, for a   *)
(* nesting of tuples, arrays and structs; the first n fields of the        *)
(* record are canonical texts of the first n leaves and shorter than the   *)
(* field buffer                                                            *)
FreshCall == de.calls > 0 /\ de.pre = Reader_new(de.pre.cap)

FieldsMatch(n) ==
    LET fields == FirstRecord(de.input).fields
        leaves == LeafTypesOf(de.type)
    IN  /\ n <= Len(fields)
        /\ n <= Len(leaves)
        /\ \A i \in 1..n :
              /\ LeafValid(leaves[i], fields[i].bytes)
              /\ Len(fields[i].bytes) < de.pre.cap

ExpectedLeaves(n) ==
    LET fields == FirstRecord(de.input).fields
        leaves == LeafTypesOf(de.type)
    IN  [i \in 1..n |-> LeafValue(leaves[i], fields[i].bytes)]

-----------------------------------------------------------------------------
(* Properties of Writer::serialize                                         *)

(* C1: a serialize call makes its only terminator operation last (no       *)
(* terminator while the value is traversed), and on success the returned   *)
(* prefix of the output is one complete record ending with the terminator. *)
C1_OneTerminatorLast ==
    ser.calls > 0 =>
      LET log == ser.res.log
          ret == ser.res.ret
          out == ser.res.output
      IN  /\ \A i \in 1..Len(log) : log[i].op = "terminator" => i = Len(log)
          /\ ret >= 0 =>
               /\ log # <<>>
               /\ log[Len(log)].op = "terminator"
               /\ log[Len(log)].res = "InputEmpty"
               /\ Len(out) = ret
               /\ out[ret] = LF
               /\ FirstRecord(out).by = "terminator"
               /\ RecordLen(out) = ret

C1_Witness ==
    /\ ser.calls > 0
    /\ ser.type = TData
    /\ ser.res.ret >= 0
    /\ CountOp(ser.res.log, "terminator") = 1

(* C2: a value built from nested tuples, arrays and structs is written as  *)
(* the flat tuple of its leaves is.                                        *)
C2_FlattenEncode ==
    (ser.calls > 0 /\ ser.res.ret >= 0 /\ IsNestedValue(ser.value)) =>
      With(Writer_serialize(ser.pre, FlatTuple(ser.value), ser.cap),
           LAMBDA flat :
          /\ flat.ret = ser.res.ret
          /\ flat.output = ser.res.output)

(* C3: a successful call on a value with k >= 1 leaves emits exactly k - 1 *)
(* delimiters.                                                             *)
C3_DelimiterCount ==
    (ser.calls > 0 /\ ser.res.ret >= 0 /\ Len(Leaves(ser.value)) >= 1) =>
      CountOp(ser.res.log, "delimiter") = Len(Leaves(ser.value)) - 1

(* C4: decoding the bytes a successful serialize returned, as the same     *)
(* type, gives the value back and reads all of them.                       *)
C4_RoundTrip ==
    (ser.calls > 0 /\ ser.res.ret >= 0) =>
      With(Reader_deserialize(Reader_new(BigCap), ser.type,
                                  TakeFirst(ser.res.output, ser.res.ret)),
           LAMBDA x :
          /\ x.st = "ok"
          /\ x.value = ser.value
          /\ x.nread = ser.res.ret)

-----------------------------------------------------------------------------
(* Properties of Reader::deserialize                                       *)

C6_MissingFields ==
    LET k == Len(LeafTypesOf(de.type))
        m == Len(FirstRecord(de.input).fields)
    IN  (/\ FreshCall
         /\ IsFlatType(de.type)
         /\ 1 <= m
         /\ m < k
         /\ FieldsMatch(m)) =>
          /\ de.res.st = "err"
          /\ de.res.err = "Custom"
          /\ Len(de.res.d.log) = m

(* C7: when the type has fewer leaves than the record has fields, the call *)
(* succeeds after one tokenizer call per leaf, and nread is the offset     *)
(* right after the delimiter that follows the last requested field.        *)
C7_FewerLeaves ==
    LET k == Len(LeafTypesOf(de.type))
        rec == FirstRecord(de.input)
    IN  (/\ FreshCall
         /\ IsFlatType(de.type)
         /\ 1 <= k
         /\ k < Len(rec.fields)
         /\ FieldsMatch(k)) =>
          /\ de.res.st = "ok"
          /\ Conforms(de.res.value, de.type)
          /\ Leaves(de.res.value) = ExpectedLeaves(k)
          /\ Len(de.res.d.log) = k
          /\ de.res.nread = rec.fields[k].end
          /\ de.input[de.res.nread] = Comma
          /\ de.res.nread <= rec.fields[Len(rec.fields)].end
          /\ \A i \in 1..k :
                de.res.d.log[i].at =
                  (IF i = 1 THEN 0 ELSE rec.fields[i - 1].end)

C7_Witness ==
    /\ FreshCall
    /\ de.type = TXY
    /\ Len(FirstRecord(de.input).fields) = 3
    /\ FieldsMatch(2)
    /\ de.res.st = "ok"
    /\ Len(de.res.d.log) = 2

(* C8: a call on a fresh Reader that succeeds with (v, n) succeeds with    *)
(* the same (v, n) on the first n bytes of its input.                      *)
C8_PrefixClosure ==
    (FreshCall /\ de.res.st = "ok") =>
      With(Reader_deserialize(de.pre, de.type,
                                  TakeFirst(de.input, de.res.nread)),
           LAMBDA y :
          /\ y.st = "ok"
          /\ y.value = de.res.value
          /\ y.nread = de.res.nread)

C8_Witness ==
    /\ FreshCall
    /\ de.res.st = "ok"
    /\ 0 < de.res.nread
    /\ de.res.nread < Len(de.input)
    /\ Len(de.res.d.log) >= 2

(* C9: nread starts at 0 and is the sum of the consumed counts of the      *)
(* tokenizer calls of the call, whatever their results; it counts the      *)
(* delimiter after a field and the terminator of a record reported         *)
(* complete, and never exceeds the input length.                           *)
C9_NreadAccounting ==
    de.calls > 0 =>
      LET log == de.res.d.log
      IN  /\ de.res.d.nread = SumR(log)
          /\ de.res.d.nread <= Len(de.input)
          /\ de.res.st = "ok" => de.res.nread = de.res.d.nread
          /\ \A i \in 1..Len(log) :
               /\ log[i].at = SumR(SubSeq(log, 1, i - 1))
               /\ (log[i].res = "Field" /\ log[i].r > 0) =>
                    IF log[i].record_end
                    THEN de.input[log[i].at + log[i].r] \in {CR, LF}
                    ELSE de.input[log[i].at + log[i].r] = Comma

C9_Witness ==
    /\ de.calls > 0
    /\ de.res.st = "ok"
    /\ Len(de.res.d.log) = 2
    /\ de.res.d.log[1].res = "Field"
    /\ de.res.d.log[2].record_end
    /\ de.res.nread = Len(de.input)
    /\ \E i \in 1..Len(de.res.d.log) : de.res.d.log[i].w < de.res.d.log[i].r

(* C10: a successful call on a record ended by the end of the input that   *)
(* requests every field of it returns nread = len(input).                  *)
C10_ExhaustionNread ==
    (/\ FreshCall
     /\ de.res.st = "ok"
     /\ FirstRecord(de.input).by = "exhaustion"
     /\ Len(de.res.d.log) >= Len(FirstRecord(de.input).fields)) =>
       de.res.nread = Len(de.input)

C10_Witness ==
    /\ FreshCall
    /\ de.res.st = "ok"
    /\ FirstRecord(de.input).by = "exhaustion"
    /\ Len(FirstRecord(de.input).fields) = 2
    /\ Len(de.res.d.log) = 2
    /\ de.res.nread = Len(de.input)

-----------------------------------------------------------------------------
(* Properties of the record loops                                          *)

(* the records of a byte string, each split as the tokenizer splits the    *)
(* first record of what follows the record before it                       *)
RECURSIVE RecordsIn(_)
RecordsIn(input) ==
    IF input = <<>> THEN <<>>
    ELSE <<FirstRecord(input)>>
           \o RecordsIn(DropFirst(input, RecordLen(input)))

(* input is a concatenation of complete records, each holding exactly the  *)
(* fields the type t requests, as texts shorter than the field buffer      *)
CompleteRecordsFor(t, input, cap) ==
    LET leaves == LeafTypesOf(t)
        recs == RecordsIn(input)
    IN  \A j \in 1..Len(recs) :
           /\ recs[j].by = "terminator"
           /\ Len(recs[j].fields) = Len(leaves)
           /\ \A i \in 1..Len(leaves) :
                 /\ recs[j].fields[i].bytes # <<>>
                 /\ LeafValid(leaves[i], recs[j].fields[i].bytes)
                 /\ Len(recs[j].fields[i].bytes) < cap

RecordLeaves(t, rec) ==
    [i \in 1..Len(LeafTypesOf(t)) |->
        LeafValue(LeafTypesOf(t)[i], rec.fields[i].bytes)]

(* C11: on an input of m complete records of the requested fields, the     *)
(* decoding loop never ends with an error, the j-th call returns the j-th  *)
(* record, and after m calls the cursor is at the end of the input (so no  *)
(* further call is made).                                                  *)
C11_DecodeLoop ==
    CompleteRecordsFor(dec.type, dec.input, reader.cap) =>
      LET recs == RecordsIn(dec.input)
      IN  /\ dec.st = "run"
          /\ dec.calls <= Len(recs)
          /\ Len(dec.values) = dec.calls
          /\ \A j \in 1..Len(dec.values) :
                /\ Conforms(dec.values[j], dec.type)
                /\ Leaves(dec.values[j]) = RecordLeaves(dec.type, recs[j])
          /\ dec.calls = Len(recs) => dec.pos = Len(dec.input)

(* the record a value gives on a new Writer with room for all of it *)
FreshRecord(v) == Writer_serialize(WriterState_new, v, BigCap).output

(* C12: each call of the encoding loop returns what the same call returns  *)
(* on a new Writer (the same bytes, the same count or error); a call that  *)
(* succeeds leaves the writer outside a field with no byte of a record     *)
(* written; and while the loop runs, output[..total] is the concatenation  *)
(* of the records the values give on a new Writer.                         *)
C12_EncodeLoop ==
    enc.calls > 0 =>
      /\ With(Writer_serialize(WriterState_new, ser.value, ser.cap),
              LAMBDA f :
                /\ ser.res.output = f.output
                /\ ser.res.ret = f.ret
                /\ ser.res.err = f.err)
      /\ ser.res.ret >= 0 =>
            /\ ~writer.in_field
            /\ writer.record_bytes = 0
      /\ enc.st = "run" =>
            /\ enc.total = Len(enc.output)
            /\ enc.output =
                  Concat([j \in 1..Len(enc.values) |->
                             FreshRecord(enc.values[j])])

(* a record with an unquoted field is written after a record whose last    *)
(* field was quoted                                                        *)
C12_Witness ==
    /\ enc.calls = 2
    /\ enc.st = "run"
    /\ enc.values[1].k = "str"
    /\ should_quote(enc.values[1].s)
    /\ enc.values[2].k = "struct"
    /\ ~should_quote(enc.values[2].e[1].s)
    /\ enc.values[2].e[1].s # <<>>
    /\ enc.total = Len(enc.output)
    /\ enc.total > Len(FreshRecord(enc.values[1]))

-----------------------------------------------------------------------------
(* Properties of calls on a Reader that has been used before               *)

(* C13: a call of deserialize on a Reader that earlier calls have used     *)
(* returns what the same call returns on a new Reader of the same          *)
(* capacity: the same Ok or Err, the same value and the same nread.        *)
C13_NoStateLeak ==
    de.calls > 0 =>
      With(Reader_deserialize(Reader_new(de.pre.cap), de.type, de.input),
           LAMBDA f :
             /\ de.res.st = f.st
             /\ de.res.err = f.err
             /\ de.res.value = f.value
             /\ de.res.nread = f.nread)

-----------------------------------------------------------------------------
(* Properties of the decoding of options                                   *)

(* C14: a request for an Option acquires its field with one tokenizer      *)
(* call, after which peeked = k and field_buffer[..k] is the field; the    *)
(* result is None exactly when the field is empty; otherwise the field is  *)
(* taken back from the buffer without a tokenizer call, and when the       *)
(* request for the inner type succeeds on the same input, the result is    *)
(* Some of the value it gives, with the same nread.                        *)
C14_OptionLookahead ==
    (de.calls > 0 /\ de.type.k = "option") =>
      With(peek_bytes(Deserializer_new(de.pre, de.input)),
           LAMBDA p :
             /\ Len(p.d.log) = 1
             /\ ~p.ok => (de.res.st = "err" /\ de.res.err = "Overflow")
             /\ p.ok =>
                  /\ p.d.peeked = Len(p.bytes)
                  /\ TakeFirst(p.d.field_buffer, p.d.peeked) = p.bytes
                  /\ (de.res.st = "ok" /\ de.res.value = VNone)
                       <=> (p.bytes = <<>>)
                  /\ p.bytes = <<>> =>
                       (de.res.d.log = p.d.log /\ de.res.nread = p.d.nread)
                  /\ p.bytes # <<>> =>
                       /\ With(read_bytes(p.d),
                               LAMBDA c :
                                 /\ c.ok
                                 /\ c.bytes = p.bytes
                                 /\ c.d.log = p.d.log)
                       /\ With(Reader_deserialize(de.pre, de.type.e[1],
                                                  de.input),
                               LAMBDA g :
                                 g.st = "ok" =>
                                   /\ de.res.st = "ok"
                                   /\ de.res.value = VSome(g.value)
                                   /\ de.res.nread = g.nread))

(* C15: when an Option is decoded as None, no field stays peeked, and the  *)
(* leaf requested after it is decoded from the next field of the record:   *)
(* for (Option<i8>, i8), a record whose first field is empty and whose     *)
(* second field is the text of an i8 n gives (None, n).                    *)
C15_NoneDiscardsPeek ==
    (/\ de.calls > 0
     /\ de.type = TComp("tuple", <<TOption(TInt), TInt>>)
     /\ Len(FirstRecord(de.input).fields) >= 2
     /\ FirstRecord(de.input).fields[1].bytes = <<>>
     /\ LeafValid(TInt, FirstRecord(de.input).fields[2].bytes)
     /\ Len(FirstRecord(de.input).fields[2].bytes) < de.pre.cap) =>
       /\ With(deserialize_option(Deserializer_new(de.pre, de.input), TInt),
               LAMBDA o : o.st = "ok" /\ o.v = VNone /\ o.d.peeked = -1)
       /\ de.res.st = "ok"
       /\ de.res.value =
            VComp("tuple",
                  <<VNone,
                    LeafValue(TInt, FirstRecord(de.input).fields[2].bytes)>>)

-----------------------------------------------------------------------------
(* Properties of the records of empty values and of full output buffers    *)

(* C16: on a new Writer and an output of 3 bytes or more, a unit, a None   *)
(* and an empty sequence are each written as two quotes and the            *)
(* terminator, 3 bytes; on an output of 2 bytes or more the pair of units  *)
(* is written as one delimiter and the terminator, 2 bytes.                *)
C16_EmptyRecord ==
    (ser.calls > 0 /\ ser.pre = WriterState_new) =>
      /\ (/\ ser.value \in {VUnit, VNone, VComp("seq", <<>>)}
          /\ ser.cap >= 3) =>
            /\ ser.res.err = "none"
            /\ ser.res.ret = 3
            /\ ser.res.output = <<Quote, Quote, LF>>
      /\ (/\ ser.value = VComp("tuple", <<VUnit, VUnit>>)
          /\ ser.cap >= 2) =>
            /\ ser.res.err = "none"
            /\ ser.res.ret = 2
            /\ ser.res.output = <<Comma, LF>>

(* an empty sequence has been written into the 32-byte buffer of the tests *)
C16_Witness ==
    /\ ser.calls > 0
    /\ ser.pre = WriterState_new
    /\ ser.value = VComp("seq", <<>>)
    /\ ser.cap = BigCap
    /\ ser.res.ret = 3
    /\ ser.res.output = <<Quote, Quote, LF>>
    /\ ser.res.log = <<LogEntry("terminator", "InputEmpty", 0, 3)>>

(* the bytes the emitter operations of a call wrote *)
RECURSIVE SumN(_)
SumN(log) == IF log = <<>> THEN 0 ELSE Head(log).n + SumN(Tail(log))

(* C17: in a call of serialize, every emitter operation is handed          *)
(* output[nwritten..] with 0 <= nwritten <= len(output) and writes no more *)
(* than that slice holds; nwritten at an operation is nwritten at the one  *)
(* before plus the bytes that one wrote, so it never decreases; and when   *)
(* the call returns, after an OutputFull too, nwritten <= len(output).     *)
C17_NwrittenBounds ==
    ser.calls > 0 =>
      LET log == ser.res.log
      IN  /\ \A i \in 1..Len(log) :
                /\ 0 <= log[i].at
                /\ log[i].at <= ser.cap
                /\ log[i].n >= 0
                /\ log[i].at + log[i].n <= ser.cap
          /\ \A i \in 1..(Len(log) - 1) :
                log[i + 1].at = log[i].at + log[i].n
          /\ 0 <= ser.res.nwritten
          /\ ser.res.nwritten <= ser.cap
          /\ log # <<>> => ser.res.nwritten >= log[Len(log)].at

(* a delimiter has reported OutputFull on a buffer that earlier operations *)
(* of the call have filled                                                 *)
C17_Witness ==
    /\ ser.calls > 0
    /\ ser.cap > 0
    /\ Len(ser.res.log) >= 2
    /\ ser.res.log[Len(ser.res.log)].op = "delimiter"
    /\ ser.res.log[Len(ser.res.log)].res = "OutputFull"
    /\ ser.res.log[Len(ser.res.log)].at = ser.cap
    /\ ser.res.nwritten = ser.cap

(* C18: serialize returns Err(Overflow) exactly when an emitter operation  *)
(* of the call reported OutputFull; that operation is the last of the      *)
(* call (none follows it, none is repeated), the bytes written before it   *)
(* stay in the output, and the call returns no count.                      *)
C18_OverflowFatal ==
    ser.calls > 0 =>
      LET log == ser.res.log
          full == {i \in 1..Len(log) : log[i].res = "OutputFull"}
      IN  /\ (ser.res.err = "Overflow") <=> (full # {})
          /\ \A i \in full : i = Len(log)
          /\ full # {} => ser.res.ret = -1
          /\ full = {} => (ser.res.err = "none" /\ ser.res.ret = SumN(log))
          /\ Len(ser.res.output) = SumN(log)
          /\ \A i \in 1..Len(log) : log[i].op \in {"field", "delimiter",
                                                    "terminator"}

(* a field has reported OutputFull after a field and a delimiter were      *)
(* written, and the call has returned Err(Overflow)                        *)
C18_Witness ==
    /\ ser.calls > 0
    /\ ser.res.err = "Overflow"
    /\ ser.res.ret = -1
    /\ Len(ser.res.log) = 3
    /\ ser.res.log[3].op = "field"
    /\ ser.res.log[3].res = "OutputFull"
    /\ ser.res.log[3].n > 0
    /\ Len(ser.res.output) = ser.cap

-----------------------------------------------------------------------------
(* Properties of the errors of a decoding                                  *)

(* C19: whatever the requested type, when a tokenizer call of a decoding   *)
(* reports OutputFull the call returns Err(Overflow), and that tokenizer   *)
(* call is the last of the decoding: the field is not read again and no    *)
(* other field is read.                                                    *)
C19_ScratchOverflow ==
    de.calls > 0 =>
      LET log == de.res.d.log
      IN  \A i \in 1..Len(log) :
             log[i].res = "OutputFull" =>
               /\ de.res.st = "err"
               /\ de.res.err = "Overflow"
               /\ de.res.nread = -1
               /\ i = Len(log)

(* bool from `true` with N = 2: the one tokenizer call reports OutputFull  *)
C19_Witness ==
    /\ de.calls > 0
    /\ de.type = TBool
    /\ de.input = <<"t", "r", "u", "e">>
    /\ de.pre.cap = 2
    /\ Len(de.res.d.log) = 1
    /\ de.res.d.log[1].res = "OutputFull"
    /\ de.res.st = "err"
    /\ de.res.err = "Overflow"

(* the field a request for one scalar acquires: the first field of the     *)
(* input, the empty field when the input holds none                        *)
AcquiredField ==
    IF FirstRecord(de.input).fields = <<>> THEN <<>>
    ELSE FirstRecord(de.input).fields[1].bytes

(* C20: a request for a bool whose field fits the buffer returns Ok        *)
(* exactly when the field is `true` or `false` (the value true or false),  *)
(* and Err(InvalidBool) for every other field, the empty field of an       *)
(* empty input among them.                                                 *)
C20_BoolLiterals ==
    (/\ FreshCall
     /\ de.type = TBool
     /\ \A i \in 1..Len(de.res.d.log) : de.res.d.log[i].res # "OutputFull") =>
       /\ Len(de.res.d.log) = 1
       /\ (de.res.st = "ok") <=>
            (AcquiredField \in {<<"t", "r", "u", "e">>,
                                <<"f", "a", "l", "s", "e">>})
       /\ de.res.st = "ok" =>
            de.res.value = VBool(AcquiredField = <<"t", "r", "u", "e">>)
       /\ de.res.st # "ok" =>
            (de.res.st = "err" /\ de.res.err = "InvalidBool")
       /\ de.input = <<>> => de.res.err = "InvalidBool"

(* bool from `false` with N = 5 is false with nread 5 *)
C20_Witness ==
    /\ FreshCall
    /\ de.type = TBool
    /\ de.input = <<"f", "a", "l", "s", "e">>
    /\ de.pre.cap = 5
    /\ Len(de.res.d.log) = 1
    /\ de.res.st = "ok"
    /\ de.res.value = VBool(FALSE)
    /\ de.res.nread = 5

(* C21: a request for a unit or a unit struct whose field fits the buffer  *)
(* makes one tokenizer call and returns Ok exactly when the field is       *)
(* empty, Err(ExpectedEmpty) otherwise; on an empty input it returns Ok    *)
(* with nread 0.                                                           *)
C21_UnitEmptyField ==
    (/\ FreshCall
     /\ de.type.k \in {"unit", "unit_struct"}
     /\ \A i \in 1..Len(de.res.d.log) : de.res.d.log[i].res # "OutputFull") =>
       /\ Len(de.res.d.log) = 1
       /\ (de.res.st = "ok") <=> (AcquiredField = <<>>)
       /\ de.res.st = "ok" => de.res.nread = de.res.d.log[1].r
       /\ de.res.st # "ok" =>
            (de.res.st = "err" /\ de.res.err = "ExpectedEmpty")
       /\ de.input = <<>> => (de.res.st = "ok" /\ de.res.nread = 0)

(* a unit requested from the field `a` is Err(ExpectedEmpty) *)
C21_Witness ==
    /\ FreshCall
    /\ de.type = TUnit
    /\ de.input = <<"a", LF>>
    /\ de.pre.cap = 2
    /\ Len(de.res.d.log) = 1
    /\ de.res.st = "err"
    /\ de.res.err = "ExpectedEmpty"

-----------------------------------------------------------------------------
(* Properties of the decoding of scalars                                   *)

(* no tokenizer call of the decoding recorded in de reported OutputFull *)
NoOutputFull ==
    \A i \in 1..Len(de.res.d.log) : de.res.d.log[i].res # "OutputFull"

(* C22: a request for a char whose field fits the buffer returns Ok        *)
(* exactly when the field is the encoding of one code point, and           *)
(* Err(InvalidUtf8Char) for every other field: the empty field, two code   *)
(* points or more, bytes that are not UTF-8.                               *)
C22_CharOneCodePoint ==
    (FreshCall /\ de.type = TChar /\ NoOutputFull) =>
       /\ (de.res.st = "ok") <=>
            (from_utf8(AcquiredField).ok
               /\ Len(from_utf8(AcquiredField).chars) = 1)
       /\ de.res.st = "ok" => de.res.value = VChar(AcquiredField)
       /\ de.res.st # "ok" =>
            (de.res.st = "err" /\ de.res.err = "InvalidUtf8Char")

(* the digits of a decimal text and the number they denote *)
IsDigits(text) ==
    text # <<>> /\ \A i \in 1..Len(text) : DigitValue(text[i]) >= 0

RECURSIVE DigitsValue(_)
DigitsValue(text) ==
    IF text = <<>> THEN 0
    ELSE 10 * DigitsValue(TakeFirst(text, Len(text) - 1))
           + DigitValue(text[Len(text)])

(* text is, from its first byte to its last, a decimal integer of i8 *)
DecimalI8(text) ==
    IF text # <<>> /\ text[1] = "-"
    THEN IsDigits(Tail(text)) /\ -DigitsValue(Tail(text)) >= I8_MIN
    ELSE IF text # <<>> /\ text[1] = "+"
    THEN IsDigits(Tail(text)) /\ DigitsValue(Tail(text)) <= I8_MAX
    ELSE IsDigits(text) /\ DigitsValue(text) <= I8_MAX

(* C23: a request for an i8 whose field fits the buffer returns Ok exactly *)
(* when the whole field is a decimal integer of -128..127, and             *)
(* Err(InvalidInt) for every other field: the empty field, a number out of *)
(* range, a field with a byte that is no digit, after leading digits too.  *)
C23_IntWholeField ==
    (FreshCall /\ de.type = TInt /\ NoOutputFull) =>
       /\ (de.res.st = "ok") <=> DecimalI8(AcquiredField)
       /\ de.res.st # "ok" =>
            (de.res.st = "err" /\ de.res.err = "InvalidInt")

(* C24: a unit variant is written as one field, its name; a request for an *)
(* enum whose field fits the buffer makes one tokenizer call, returns the  *)
(* variant whose name is the field, with nread what that call consumed,    *)
(* and returns Err(Custom) when the field is no variant name.              *)
C24_UnitVariants ==
    /\ (ser.calls > 0 /\ ser.value.k = "unit_variant"
          /\ ser.res.err = "none") =>
         /\ ser.res.output = ser.value.s \o <<LF>>
         /\ Len(ser.res.log) = 2
         /\ ser.res.log[1] =
              LogEntry("field", "InputEmpty", 0, Len(ser.value.s))
         /\ ser.res.log[2].op = "terminator"
    /\ (FreshCall /\ de.type.k = "enum" /\ NoOutputFull) =>
         /\ Len(de.res.d.log) = 1
         /\ (de.res.st = "ok") <=>
              (\E i \in 1..Len(de.type.s) : de.type.s[i] = AcquiredField)
         /\ de.res.st = "ok" =>
              /\ de.res.value = VVariant(AcquiredField)
              /\ de.res.nread = de.res.d.log[1].r
         /\ de.res.st # "ok" =>
              (de.res.st = "err" /\ de.res.err = "Custom")

(* the variant A has been written as `A\n`, and B has been decoded from    *)
(* `B` by a Reader<1>                                                      *)
C24_Witness ==
    /\ ser.calls > 0
    /\ ser.value = VVariant(NameA)
    /\ ser.res.output = <<"A", LF>>
    /\ ser.res.ret = 2
    /\ FreshCall
    /\ de.type = TABC
    /\ de.input = <<"B">>
    /\ de.pre.cap = 1
    /\ de.res.st = "ok"
    /\ de.res.value = VVariant(NameB)
    /\ de.res.nread = 1

-----------------------------------------------------------------------------
(* Properties of unsupported shapes and of newtype structs                 *)

DataVariantKinds == {"newtype_variant", "tuple_variant", "struct_variant"}

(* C25: serializing a variant that carries data, or a map, stops at the    *)
(* hook with the not-supported panic: nothing is written for it and no     *)
(* count is returned; deserializing an enum stops with the not-supported   *)
(* panic when the field names a variant that carries data, after the one   *)
(* tokenizer call that read the name, and returns Ok only for a unit       *)
(* variant.                                                                *)
C25_UnsupportedShapes ==
    /\ (ser.calls > 0 /\ ser.value.k \in DataVariantKinds \cup {"map"}) =>
         /\ ser.res.err = "panic"
         /\ ser.res.ret = -1
         /\ ser.res.log = <<>>
         /\ ser.res.output = <<>>
    /\ (FreshCall /\ de.type.k = "data_enum" /\ NoOutputFull) =>
         LET named == {i \in 1..Len(de.type.s) :
                          de.type.s[i] = AcquiredField}
         IN  /\ Len(de.res.d.log) = 1
             /\ (de.res.st = "panic") <=>
                  (\E i \in named : de.type.e[i] # TUnit)
             /\ (de.res.st = "ok") <=>
                  (\E i \in named : de.type.e[i] = TUnit)
             /\ named = {} => (de.res.st = "err" /\ de.res.err = "Custom")

(* Data::A(5) has stopped the encoding, and the field `C`, the name of a   *)
(* tuple variant, has stopped the decoding                                 *)
C25_Witness ==
    /\ ser.calls > 0
    /\ ser.value = VNewtypeVariant(NameA, VInt(5))
    /\ ser.cap = BigCap
    /\ ser.res.err = "panic"
    /\ FreshCall
    /\ de.type = TDataABCD
    /\ de.input = <<"C", Comma, "5", LF>>
    /\ de.pre.cap = 2
    /\ de.res.st = "panic"
    /\ Len(de.res.d.log) = 1

(* C26: every call of serialize returns Ok or Err(Overflow) and every call *)
(* of deserialize returns Ok or Err: none stops with a panic, and none     *)
(* fails to return.                                                        *)
C26_ErrorsReturned ==
    /\ ser.calls > 0 => ser.res.err \in {"none", "Overflow"}
    /\ de.calls > 0 => de.res.st \in {"ok", "err"}

(* C27: a newtype struct is written as its inner value is (the same bytes, *)
(* the same count or error), and a request for a newtype struct ends as    *)
(* the request for its inner type on the same input does: the same         *)
(* tokenizer calls, the same nread or error, the inner value wrapped.      *)
C27_NewtypeTransparent ==
    /\ (ser.calls > 0 /\ ser.value.k = "newtype_struct") =>
         With(Writer_serialize(ser.pre, ser.value.e[1], ser.cap),
              LAMBDA f :
                /\ ser.res.output = f.output
                /\ ser.res.ret = f.ret
                /\ ser.res.err = f.err)
    /\ (de.calls > 0 /\ de.type.k = "newtype_struct") =>
         With(Reader_deserialize(de.pre, de.type.e[1], de.input),
              LAMBDA g :
                /\ de.res.st = g.st
                /\ de.res.err = g.err
                /\ de.res.nread = g.nread
                /\ de.res.d.log = g.d.log
                /\ g.st = "ok" => de.res.value = VNewtype(g.value))

(* C30: a request made through deserialize_map never returns Ok and makes  *)
(* no tokenizer call: the visitor is not given the fields of the record.   *)
C30_MapUnsupported ==
    (de.calls > 0 /\ de.type.k = "map") =>
       /\ de.res.st # "ok"
       /\ de.res.d.log = <<>>


-----------------------------------------------------------------------------
(* Properties of record_end and of the decoding of sequences               *)

(* the tokenizer calls of a log that reported a field ending the record *)
RecordEnds(log) ==
    {i \in 1..Len(log) : log[i].res = "Field" /\ log[i].record_end}

(* C28: within one decode call record_end is a latch.  It is false as long *)
(* as no tokenizer call of the call has reported a field that ended the    *)
(* record, it is true once one has, and it is never reset afterwards: the  *)
(* call that reported the end of the record is the last tokenizer call of  *)
(* the decode call.                                                        *)
C28_RecordEndLatch ==
    de.calls > 0 =>
      LET log == de.res.d.log
      IN  /\ de.res.d.record_end = (RecordEnds(log) # {})
          /\ \A i \in RecordEnds(log) : i = Len(log)
          /\ Deserializer_new(de.pre, de.input).record_end = FALSE

(* (i8, i8) from `5` LF `7,8` LF: the first field ends the record, the     *)
(* second element is refused without a tokenizer call                      *)
C28_Witness ==
    /\ de.calls > 0
    /\ de.type = TPair
    /\ de.input = <<"5", LF, "7", Comma, "8", LF>>
    /\ de.pre.cap = 2
    /\ de.res.d.record_end
    /\ Len(de.res.d.log) = 1
    /\ de.res.d.nread = 2
    /\ de.res.err = "Custom"


(* the fields an element type decodes, and the element a field denotes *)
ElementValid(t, bytes) ==
    IF t.k = "option"
    THEN bytes = <<>> \/ LeafValid(t.e[1], bytes)
    ELSE LeafValid(t, bytes)

ElementValue(t, bytes) ==
    IF t.k = "option"
    THEN IF bytes = <<>> THEN VNone ELSE VSome(LeafValue(t.e[1], bytes))
    ELSE LeafValue(t, bytes)

(* a new Reader is asked for a Vec and the first record of the input is    *)
(* ended by a terminator byte, each of its fields being a text of the element   *)
(* type, and no tokenizer call reports OutputFull                          *)
SeqOfRecord ==
    /\ FreshCall
    /\ de.type.k = "seq"
    /\ FirstRecord(de.input).by = "terminator"
    /\ RecordLen(de.input) > 0
    /\ de.input[RecordLen(de.input)] \in {CR, LF}
    /\ NoOutputFull
    /\ \A i \in 1..Len(FirstRecord(de.input).fields) :
          ElementValid(de.type.e[1], FirstRecord(de.input).fields[i].bytes)

(* C29: a Vec decoded from a record of k >= 1 fields ended by a terminator *)
(* has exactly k elements, the i-th decoded from the i-th field; one       *)
(* tokenizer call is made per element and none for the request that        *)
(* returns the end of the sequence; nread is the length of the record      *)
(* with its terminator.                                                    *)
C29_SeqOfRecord ==
    SeqOfRecord =>
      LET fields == FirstRecord(de.input).fields
      IN  /\ de.res.st = "ok"
          /\ de.res.value =
                VComp("seq", [i \in 1..Len(fields) |->
                                ElementValue(de.type.e[1], fields[i].bytes)])
          /\ Len(de.res.d.log) = Len(fields)
          /\ de.res.nread = RecordLen(de.input)


-----------------------------------------------------------------------------
(* Properties of the Serializer of serializer.rs                          *)

(* the texts of the leaves of a value whose leaves are integers *)
IntLeafTexts(v) == [i \in 1..Len(Leaves(v)) |-> itoa_format(Leaves(v)[i].n)]

(* C31: the Serializer of serializer.rs writes a value built from nested   *)
(* tuples, arrays and structs over integers as one record: the texts of    *)
(* its leaves separated by delimiters, then one terminator.  The only      *)
(* terminator operation is the last operation (the end of a nested         *)
(* composite writes none).                                                 *)
C31_SerializerRsFlattens ==
    (/\ ser.calls > 0
     /\ ser.res.ret >= 0
     /\ IsNestedValue(ser.value)
     /\ Leaves(ser.value) # <<>>
     /\ \A i \in 1..Len(Leaves(ser.value)) : Leaves(ser.value)[i].k = "i8") =>
       /\ ser.res.output = Join(IntLeafTexts(ser.value)) \o <<LF>>
       /\ CountOp(ser.res.log, "terminator") = 1
       /\ ser.res.log[Len(ser.res.log)].op = "terminator"

-----------------------------------------------------------------------------
(* Properties of the termination of a decoding                             *)

(* C32: every Reader::deserialize call terminates.  No sequence keeps      *)
(* yielding elements from a deserializer that the element request leaves   *)
(* as it found it: the call returns Ok or Err after finitely many element  *)
(* requests.                                                               *)
C32_DeserializeTerminates ==
    de.calls > 0 => de.res.st \in {"ok", "err"}

-----------------------------------------------------------------------------
(* Properties of records without a terminator                              *)

(* the input of the call recorded in de is a record without its            *)
(* terminator: no byte of it is a terminator and no quoted field is open   *)
(* at its end                                                              *)
RecordWithoutTerminator ==
    /\ FreshCall
    /\ \A i \in 1..Len(de.input) : de.input[i] \notin {CR, LF}
    /\ FirstRecord(de.input).state # "InQuotedField"

(* C33: a call on a record without its terminator returns what the call    *)
(* on the record followed by the terminator returns: the same error, or    *)
(* the same value with the same nread or, when the terminator is consumed, *)
(* an nread smaller by the length of the terminator.                       *)
C33_MissingTerminator ==
    RecordWithoutTerminator =>
      With(Reader_deserialize(de.pre, de.type, de.input \o <<LF>>),
           LAMBDA t :
          /\ t.st = de.res.st
          /\ t.err = de.res.err
          /\ de.res.st = "ok" =>
               /\ t.value = de.res.value
               /\ t.nread \in {de.res.nread, de.res.nread + 1})


-----------------------------------------------------------------------------
(* Properties of a Writer after a failed call                              *)

(* C34: the serialize call that follows a call that returned               *)
(* Err(Overflow) on the same Writer writes, into a buffer that is large    *)
(* enough, the bytes a new Writer writes for the value.                    *)
C34_FailedEncodeNoPoison ==
    ser.calls = 2 =>
      With(Writer_serialize(WriterState_new, ser.value, ser.cap),
           LAMBDA fresh :
          /\ ser.res.err = fresh.err
          /\ ser.res.ret = fresh.ret
          /\ ser.res.output = fresh.output)

-----------------------------------------------------------------------------
(* Properties of the capacity of the field buffer                          *)

(* C35: a Reader<N> returns Err(Overflow) only when a field of the record  *)
(* is longer than N bytes once unescaped: a field of N bytes or fewer is   *)
(* decoded, whatever follows it.                                           *)
C35_FieldOfCapacity ==
    (FreshCall /\ de.res.err = "Overflow") =>
      \E i \in 1..Len(FirstRecord(de.input).fields) :
         Len(FirstRecord(de.input).fields[i].bytes) > de.pre.cap

-----------------------------------------------------------------------------
(* Properties of unit structs                                              *)

(* C36: the record Writer::serialize writes for a unit struct holds the    *)
(* field Reader::deserialize accepts for a unit struct, the empty field:   *)
(* decoding the record as the unit struct returns it.                      *)
C36_UnitStructWire ==
    (ser.calls > 0 /\ ser.res.ret >= 0 /\ ser.value.k = "unit_struct") =>
      /\ FirstRecord(ser.res.output).fields[1].bytes = <<>>
      /\ With(Reader_deserialize(Reader_new(BigCap), ser.type,
                                     ser.res.output),
              LAMBDA x :
             /\ x.st = "ok"
             /\ x.value = ser.value)

-----------------------------------------------------------------------------
(* Properties of a peeked field                                            *)

(* a new Reader is asked for an Option of a composite with elements, and   *)
(* the field peeked for the Option is not empty and ends the record        *)
PeekedLastField ==
    /\ FreshCall
    /\ de.type.k = "option"
    /\ de.type.e[1].k \in CompoundKinds
    /\ de.type.e[1].e # <<>>
    /\ de.res.d.log # <<>>
    /\ de.res.d.log[1].res = "Field"
    /\ de.res.d.log[1].record_end
    /\ de.res.d.log[1].w > 0

(* C37: a field buffered by a peek is not lost.  When the field peeked for *)
(* an Option of a composite is not empty and is the last of the record,    *)
(* the first element request of the composite takes it: no field is left   *)
(* peeked when the call returns, and a call that succeeds returns Some of  *)
(* a composite whose first leaf is decoded from that field.                *)
C37_PeekedFieldNotLost ==
    PeekedLastField =>
      /\ de.res.d.peeked = -1
      /\ de.res.st = "ok" =>
           /\ de.res.value.k = "some"
           /\ Leaves(de.res.value) # <<>>
           /\ Leaves(de.res.value)[1] =
                LeafValue(LeafTypesOf(de.type.e[1].e[1])[1],
                          FirstRecord(de.input).fields[1].bytes)

=============================================================================
